---- MODULE Spec2Model ----
(***************************************************************************)
(* Verification model of the Gordafarid encrypted relay:                   *)
(*   - the process-wide nonce cache (nonce_cache.NonceCache),              *)
(*   - the framed AEAD stream (cipher_conn.CipherConn),                    *)
(*   - the Gordafarid handshake (server and client roles),                 *)
(*   - the SOCKS5 user/password sub-negotiation and the SOCKS5 acceptor,   *)
(*   - the relay orchestrator and the handshake under a deadline,          *)
(*   - single calls of the codecs, and the cleanup routines.               *)
(* Each component has its own specification; the variables of the other    *)
(* components stay at their initial value.                                 *)
(***************************************************************************)
EXTENDS Integers, Sequences, FiniteSets, TLC

(***************************************************************************)
(* Bounds of the model                                                     *)
(***************************************************************************)
\* number of distinct nonce values the random source can draw
MaxNonce == 2
\* number of goroutines calling NonceCache.Store concurrently
NumTasks == 2
\* last value of the wall clock (seconds, scaled)
MaxTime == 3
\* nonceExpiryTime scaled to clock ticks (60 minutes in the program)
NonceExpiry == 1

Nonces == 1..MaxNonce
Tasks == 1..NumTasks
Times == 0..MaxTime
\* absent key of the sync.Map
NoEntry == -1

VARIABLES
  \* ---- nonce cache component ----
  storage,    \* NonceCache.storage: nonce -> Unix timestamp, or NoEntry
  now,        \* time.Now().Unix()
  tasks,      \* per goroutine: position inside NonceCache.Store and its result
  sweeper,    \* position of CleanupExpiredNonces inside storage.Range
  lastFresh   \* history: per nonce, stamp of the latest Store that returned nil

VARIABLES
  \* ---- framed AEAD stream component ----
  wcache,     \* cipher_conn.nonceCache of the writing process
  rcache,     \* cipher_conn.nonceCache of the reading process
  wire,       \* per reading connection: records in flight on the raw stream
  wstate,     \* writer side of connection 1: "open" or "closed"
  sent,       \* history: the records CipherConn.Write has emitted, in order
  rd,         \* per reading connection: CipherConn state and position in Read
  seen,       \* history: nonces of the records a Read has taken off a wire
  replays     \* number of captured records the attacker has re-sent

VARIABLES
  \* ---- Gordafarid handshake component ----
  gcache,     \* aes_gcm.nonceCache of the server process (greeting nonces)
  scache,     \* cipher_conn.nonceCache of the server process
  hs,         \* per accepted connection: the server-side gordafarid.Conn
  hin,        \* per connection: what the peer has sent and is not yet read
  hout,       \* per connection: what the server has written, in order
  gstored,    \* history: per greeting nonce, when Decrypt_AES_GCM last stored it
  cl          \* the dialing side: position inside clientHandshake

VARIABLES
  \* ---- SOCKS5 user/password sub-negotiation ----
  sa          \* per run: the Socks5 connection inside the sub-negotiation

VARIABLES
  \* ---- SOCKS5 acceptor ----
  sk          \* the socks.Conn of one accepted connection inside Listener.Accept

VARIABLES
  \* ---- relay orchestrator ----
  rl          \* one handleConnection: the handler, its two copy tasks, its streams

VARIABLES
  \* ---- handshake under a deadline ----
  cx          \* one Listener.Accept or Dialer.dial: the handshake's context-aware
              \* I/O calls, their helper goroutines, the context and the connection

VARIABLES
  \* ---- single calls of the codecs ----
  fx          \* one call of a framing, address or cipher-suite function: its
              \* input, its position and what it returned

VARIABLES
  \* ---- cleanup routines ----
  sw          \* the goroutines of StartCleanupRoutine, one per process-wide
              \* cache, their tickers and contexts, and the state of the process

VARIABLES
  \* ---- accept loop of the server ----
  ls          \* Server.Start: the accepting goroutine inside Listener.Accept,
              \* the two channels and the handlers the main loop has started

VARIABLES
  \* ---- callers of one Conn ----
  hc          \* one Conn whose handshake has not run, and the goroutines that
              \* call Read and Write on it

ncVars == <<storage, now, tasks, sweeper, lastFresh>>
stVars == <<wcache, rcache, wire, wstate, sent, rd, seen, replays>>
hsVars == <<gcache, scache, hs, hin, hout, gstored, cl>>
saVars == <<sa>>
xtVars == <<sk, rl, cx, fx, sw, ls, hc>>

vars == <<ncVars, stVars, hsVars, saVars, xtVars>>

\* what the actions of one component leave alone
notNonce == <<stVars, hsVars, saVars, xtVars>>
notStream == <<ncVars, hsVars, saVars, xtVars>>
notHandshake == <<ncVars, stVars, saVars, xtVars>>
notSocks == <<ncVars, stVars, hsVars, xtVars>>
notAcceptor == <<ncVars, stVars, hsVars, rl, cx, fx, sw, ls, hc>>
notRelay == <<ncVars, stVars, hsVars, saVars, sk, cx, fx, sw, ls, hc>>
notCtx == <<ncVars, stVars, hsVars, saVars, sk, rl, fx, sw, ls, hc>>
notCodec == <<ncVars, stVars, hsVars, saVars, sk, rl, cx, sw, ls, hc>>
notRoutine == <<ncVars, stVars, hsVars, saVars, sk, rl, cx, fx, ls, hc>>
notListener == <<ncVars, stVars, hsVars, saVars, sk, rl, cx, fx, sw, hc>>
notCallers == <<ncVars, stVars, hsVars, saVars, sk, rl, cx, fx, sw, ls>>

(***************************************************************************)
(* NonceCache                                                              *)
(***************************************************************************)
IdleTask == [pc |-> "idle", nonce |-> 0, res |-> "none", must |-> FALSE, overlap |-> {}]
IdleSweeper == [pc |-> "idle", nowTimestamp |-> 0, todo |-> {}, key |-> 0]

\* NewNonceCache: an empty map
NewNonceCache == [n \in Nonces |-> NoEntry]

\* NonceCache.Exists / the Load inside Store
Exists(st, n) == st[n] # NoEntry

\* the expiry test of CleanupExpiredNonces
Expired(nowTimestamp, nonceTimestamp) == (nowTimestamp - nonceTimestamp) > NonceExpiry

NonceInit ==
  /\ storage = NewNonceCache
  /\ now = 0
  /\ tasks = [t \in Tasks |-> IdleTask]
  /\ sweeper = IdleSweeper
  /\ lastFresh = [n \in Nonces |-> NoEntry]

\* Store, first half: nc.storage.Load(nonceKey); returns errNonceReuseDetected
\* when the key is present.
Store_Load(t, n) ==
  /\ tasks[t].pc = "idle"
  /\ LET must == lastFresh[n] # NoEntry /\ now - lastFresh[n] <= NonceExpiry
         over == {u \in Tasks \ {t} : tasks[u].pc = "loaded" /\ tasks[u].nonce = n}
     IN  tasks' = [tasks EXCEPT ![t] =
                     IF Exists(storage, n)
                     THEN [pc |-> "done", nonce |-> n, res |-> "duplicate",
                           must |-> must, overlap |-> over]
                     ELSE [pc |-> "loaded", nonce |-> n, res |-> "none",
                           must |-> must, overlap |-> over]]
  /\ UNCHANGED <<storage, now, sweeper, lastFresh, notNonce>>

\* Store, second half: nc.storage.Store(nonceKey, time.Now().Unix()); return nil
Store_Store(t) ==
  /\ tasks[t].pc = "loaded"
  /\ storage' = [storage EXCEPT ![tasks[t].nonce] = now]
  /\ lastFresh' = [lastFresh EXCEPT ![tasks[t].nonce] = now]
  /\ tasks' = [tasks EXCEPT ![t].pc = "done", ![t].res = "fresh"]
  /\ UNCHANGED <<now, sweeper, notNonce>>

\* the caller takes the result; the goroutine is free for another call
Store_Return(t) ==
  /\ tasks[t].pc = "done"
  /\ tasks' = [u \in Tasks |->
                 IF u = t THEN IdleTask
                 ELSE [tasks[u] EXCEPT !.overlap = @ \ {t}]]
  /\ UNCHANGED <<storage, now, sweeper, lastFresh, notNonce>>

\* CleanupExpiredNonces: nowTimestamp := time.Now().Unix(); Range begins
Cleanup_Begin ==
  /\ sweeper.pc = "idle"
  /\ sweeper' = [pc |-> "ranging", nowTimestamp |-> now,
                 todo |-> {n \in Nonces : Exists(storage, n)}, key |-> 0]
  /\ UNCHANGED <<storage, now, tasks, lastFresh, notNonce>>

\* the Range callback reads one (key, value) pair and compares the age
Cleanup_Visit(n) ==
  /\ sweeper.pc = "ranging"
  /\ n \in sweeper.todo
  /\ sweeper' = IF Exists(storage, n) /\ Expired(sweeper.nowTimestamp, storage[n])
                THEN [sweeper EXCEPT !.pc = "deleting", !.key = n, !.todo = @ \ {n}]
                ELSE [sweeper EXCEPT !.todo = @ \ {n}]
  /\ UNCHANGED <<storage, now, tasks, lastFresh, notNonce>>

\* nc.storage.Delete(key) inside the callback
Cleanup_Delete ==
  /\ sweeper.pc = "deleting"
  /\ storage' = [storage EXCEPT ![sweeper.key] = NoEntry]
  /\ sweeper' = [sweeper EXCEPT !.pc = "ranging", !.key = 0]
  /\ UNCHANGED <<now, tasks, lastFresh, notNonce>>

\* Range is over
Cleanup_End ==
  /\ sweeper.pc = "ranging"
  /\ sweeper.todo = {}
  /\ sweeper' = IdleSweeper
  /\ UNCHANGED <<storage, now, tasks, lastFresh, notNonce>>

\* the clock advances
Tick ==
  /\ now < MaxTime
  /\ now' = now + 1
  /\ UNCHANGED <<storage, tasks, sweeper, lastFresh, notNonce>>

NextNonce ==
  \/ \E t \in Tasks, n \in Nonces : Store_Load(t, n)
  \/ \E t \in Tasks : Store_Store(t)
  \/ \E t \in Tasks : Store_Return(t)
  \/ Cleanup_Begin
  \/ \E n \in Nonces : Cleanup_Visit(n)
  \/ Cleanup_Delete
  \/ Cleanup_End
  \/ Tick



(***************************************************************************)
(* Framed AEAD stream (cipher_conn.CipherConn)                             *)
(***************************************************************************)
\* longest plaintext of one Write
MaxWrite == 2
\* number of Write calls on the connection
MaxWrites == 2
\* largest read buffer handed to Read
MaxBuf == 2
\* number of captured records the attacker re-sends
MaxReplay == 1
packetMessageLengthSize == 2
AEAD_NonceSize == 12
AEAD_Overhead == 16

\* connections of the reading process: 1 carries the session, 2 is another
\* connection accepted by the same process
RConns == {1, 2}

\* the key of the session (the account's password) and another account's key
SessionKey == "k1"
OtherKey == "k2"
\* key each reading connection opens records with: both are sessions of
\* the same account
connKey == [c \in RConns |-> SessionKey]

RECURSIVE Flatten(_)
Flatten(ss) == IF ss = <<>> THEN <<>> ELSE Head(ss) \o Flatten(Tail(ss))

\* the plaintexts handed to Write so far, and their concatenation
Writes == [i \in 1..Len(sent) |-> sent[i].ct.pt]
Written == Flatten(Writes)

\* the next plaintext of l bytes: every byte of the stream is distinct, so a
\* lost, repeated or reordered byte shows
NextPlaintext(l) == [i \in 1..l |-> Len(Written) + i]

IsPrefix(a, b) == Len(a) <= Len(b) /\ SubSeq(b, 1, Len(a)) = a

Min(a, b) == IF a < b THEN a ELSE b

\* binary.BigEndian.PutUint16(packetLen, uint16(len(packet)))
PacketLen(nonceLen, ctLen) == (nonceLen + ctLen) % 65536

\* aead.Seal: the ciphertext carries the plaintext under the key, plus the tag
Seal(key, nonce, b) == [key |-> key, nonce |-> nonce, pt |-> b, size |-> Len(b) + AEAD_Overhead]

\* the record Write emits: length prefix, nonce, ciphertext
Packet(key, nonce, b) ==
  [len |-> PacketLen(AEAD_NonceSize, Seal(key, nonce, b).size),
   nonce |-> nonce,
   ct |-> Seal(key, nonce, b)]

\* aead.Open: succeeds when key and nonce are those the ciphertext was sealed
\* with and the bytes read are exactly the sealed ones
OpenOK(key, nonce, rec) ==
  /\ rec.ct.key = key
  /\ rec.ct.nonce = nonce
  /\ rec.len = AEAD_NonceSize + rec.ct.size

\* n := copy(b, c.buffer)
CopyLen(k, buffer) == Min(k, Len(buffer))
\* c.buffer = c.buffer[n:]
\* (mutant: the buffer is not advanced past the bytes copied)
Rest_NotAdvanced(buffer, n) == buffer
Rest(buffer, n) == SubSeq(buffer, n + 1, Len(buffer))

IdleReader == [pc |-> "idle", buffer |-> <<>>, rec |-> <<>>, k |-> 0,
               n |-> 0, err |-> "nil", delivered |-> <<>>, replay |-> FALSE]

StreamInit ==
  /\ wcache = NewNonceCache
  /\ rcache = NewNonceCache
  /\ wire = [c \in RConns |-> <<>>]
  /\ wstate = "open"
  /\ sent = <<>>
  /\ rd = [c \in RConns |-> IdleReader]
  /\ seen = {}
  /\ replays = 0

\* CipherConn.Write(b) on the writing end of connection 1: draw nonces until
\* one is not in the cache, store it, seal, emit one record
Write(l, nonce) ==
  /\ wstate = "open"
  /\ Len(sent) < MaxWrites
  /\ ~Exists(wcache, nonce)
  /\ wcache' = [wcache EXCEPT ![nonce] = 0]
  /\ wire' = [wire EXCEPT ![1] = Append(@, Packet(SessionKey, nonce, NextPlaintext(l)))]
  /\ sent' = Append(sent, Packet(SessionKey, nonce, NextPlaintext(l)))
  /\ UNCHANGED <<rcache, wstate, rd, seen, replays, notStream>>

\* CipherConn.Write: c.Conn.Write fails, Write returns (0, err)
Write_Fail ==
  /\ wstate = "open"
  /\ wstate' = "closed"
  /\ UNCHANGED <<wcache, rcache, wire, sent, rd, seen, replays, notStream>>

\* the writing peer closes the connection
Write_Close ==
  /\ wstate = "open"
  /\ wstate' = "closed"
  /\ UNCHANGED <<wcache, rcache, wire, sent, rd, seen, replays, notStream>>

\* an attacker who captured a record of connection 1 sends it again, on
\* connection 1 or on another connection of the reading process
Replay(i, c) ==
  /\ replays < MaxReplay
  /\ i \in 1..Len(sent)
  /\ wire' = [wire EXCEPT ![c] = Append(@, sent[i])]
  /\ replays' = replays + 1
  /\ UNCHANGED <<wcache, rcache, wstate, sent, rd, seen, notStream>>

\* an attacker sends a record of his own making on a connection of the
\* reading process: a nonce of his choice and bytes that are not sealed
\* under the session key
Forge(c, nonce) ==
  /\ replays < MaxReplay
  /\ wire' = [wire EXCEPT ![c] = Append(@, Packet(OtherKey, nonce, <<>>))]
  /\ replays' = replays + 1
  /\ UNCHANGED <<wcache, rcache, wstate, sent, rd, seen, notStream>>

\* CipherConn.Read(b), len(b) = k, with plaintext left in c.buffer
Read_Buffered(c, k) ==
  /\ rd[c].pc = "idle"
  /\ Len(rd[c].buffer) > 0
  /\ LET n == CopyLen(k, rd[c].buffer)
     IN  rd' = [rd EXCEPT ![c].buffer = Rest(@, n),
                          ![c].n = n, ![c].err = "nil",
                          ![c].delivered = @ \o SubSeq(rd[c].buffer, 1, n)]
  /\ UNCHANGED <<wcache, rcache, wire, wstate, sent, seen, replays, notStream>>

\* CipherConn.Read: io.ReadFull of the length prefix and of the record
Read_Packet(c, k) ==
  /\ rd[c].pc = "idle"
  /\ Len(rd[c].buffer) = 0
  /\ Len(wire[c]) > 0
  /\ rd' = [rd EXCEPT ![c].pc = "exists", ![c].rec = Head(wire[c]), ![c].k = k,
                      ![c].replay = Head(wire[c]).nonce \in seen]
  /\ seen' = seen \cup {Head(wire[c]).nonce}
  /\ wire' = [wire EXCEPT ![c] = Tail(@)]
  /\ UNCHANGED <<wcache, rcache, wstate, sent, replays, notStream>>

\* CipherConn.Read: io.ReadFull meets the end of the stream
Read_EOF(c) ==
  /\ rd[c].pc = "idle"
  /\ Len(rd[c].buffer) = 0
  /\ Len(wire[c]) = 0
  /\ c = 1 => wstate # "open"
  /\ rd' = [rd EXCEPT ![c].pc = "failed", ![c].n = 0, ![c].err = "EOF"]
  /\ UNCHANGED <<wcache, rcache, wire, wstate, sent, seen, replays, notStream>>

\* CipherConn.Read: if nonceCache.Exists(nonce) { return 0, err...ReplayAttack }
Read_Exists(c) ==
  /\ rd[c].pc = "exists"
  /\ rd' = IF Exists(rcache, rd[c].rec.nonce)
           THEN [rd EXCEPT ![c].pc = "failed", ![c].n = 0, ![c].err = "replay"]
           ELSE [rd EXCEPT ![c].pc = "store"]
  /\ UNCHANGED <<wcache, rcache, wire, wstate, sent, seen, replays, notStream>>

\* CipherConn.Read: nonceCache.Store(nonce)
\* (mutant: the nonce is not inserted before the ciphertext is opened)
Read_Store_Skip(c) ==
  /\ rd[c].pc = "store"
  /\ rd' = [rd EXCEPT ![c].pc = "open"]
  /\ UNCHANGED <<wcache, rcache, wire, wstate, sent, seen, replays, notStream>>
Read_Store(c) ==
  /\ rd[c].pc = "store"
  /\ rcache' = [rcache EXCEPT ![rd[c].rec.nonce] = 0]
  /\ rd' = [rd EXCEPT ![c].pc = "open"]
  /\ UNCHANGED <<wcache, wire, wstate, sent, seen, replays, notStream>>

\* CipherConn.Read: aead.Open, c.buffer = plaintext, copy, c.buffer = c.buffer[n:]
Read_Open(c) ==
  /\ rd[c].pc = "open"
  /\ rd' = IF OpenOK(connKey[c], rd[c].rec.nonce, rd[c].rec)
           THEN LET pt == rd[c].rec.ct.pt
                    n == CopyLen(rd[c].k, pt)
                IN  [rd EXCEPT ![c].pc = "idle", ![c].buffer = Rest(pt, n),
                               ![c].n = n, ![c].err = "nil",
                               ![c].delivered = @ \o SubSeq(pt, 1, n)]
           ELSE [rd EXCEPT ![c].pc = "failed", ![c].n = 0, ![c].err = "auth"]
  /\ UNCHANGED <<wcache, rcache, wire, wstate, sent, seen, replays, notStream>>

\* one session: the writer and the reader of connection 1
NextStream ==
  \/ \E l \in 0..MaxWrite, nonce \in Nonces : Write(l, nonce)
  \/ Write_Fail
  \/ Write_Close
  \/ \E k \in 0..MaxBuf : Read_Buffered(1, k)
  \/ \E k \in 0..MaxBuf : Read_Packet(1, k)
  \/ Read_EOF(1)
  \/ Read_Exists(1)
  \/ Read_Store(1)
  \/ Read_Open(1)

\* the session, an attacker sending records of his own making, and the
\* readers of both connections of the reading process
NextForge ==
  \/ \E l \in 0..MaxWrite, nonce \in Nonces : Write(l, nonce)
  \/ Write_Fail
  \/ Write_Close
  \/ \E c \in RConns, nonce \in Nonces : Forge(c, nonce)
  \/ \E c \in RConns, k \in 0..MaxBuf : Read_Buffered(c, k)
  \/ \E c \in RConns, k \in 0..MaxBuf : Read_Packet(c, k)
  \/ \E c \in RConns : Read_EOF(c)
  \/ \E c \in RConns : Read_Exists(c)
  \/ \E c \in RConns : Read_Store(c)
  \/ \E c \in RConns : Read_Open(c)

\* the session, an attacker re-sending captured records, and the readers of
\* both connections of the reading process
NextReplay ==
  \/ \E l \in 0..MaxWrite, nonce \in Nonces : Write(l, nonce)
  \/ Write_Fail
  \/ Write_Close
  \/ \E i \in 1..MaxWrites, c \in RConns : Replay(i, c)
  \/ \E c \in RConns, k \in 0..MaxBuf : Read_Buffered(c, k)
  \/ \E c \in RConns, k \in 0..MaxBuf : Read_Packet(c, k)
  \/ \E c \in RConns : Read_EOF(c)
  \/ \E c \in RConns : Read_Exists(c)
  \/ \E c \in RConns : Read_Store(c)
  \/ \E c \in RConns : Read_Open(c)

(***************************************************************************)
(* Gordafarid handshake (gordafarid.Conn, server and client roles)         *)
(***************************************************************************)
\* nonces the stream records of the handshake can carry
MaxHsNonce == 4
gordafaridVersion == 1
greetingSuccess == 0
greetingFailed == 1
replySuccess == 0
CmdConnect == 1
AtypIPv4 == 1
AtypDomain == 3
AtypIPv6 == 4
\* 12 nonce + 34 greeting + 16 tag
greetingCipherSize == 62

HNonces == 1..MaxHsNonce
\* the stream nonces drawn while the cleanup routines run
RetentionNonces == 1..(MaxHsNonce - 1)
\* connections the server process has accepted
HConns == {1, 2}

\* init-password of the server's configuration, and another 32-byte key
InitPassword == "init"
OtherPassword == "other"

\* convertToRealConfig: the identifier of an account is SHA-256 of the
\* username followed by the password
Hash(username, password) == <<"sha256", username, password>>
KnownId == Hash("user", "pw")
UnknownId == Hash("nobody", "pw")
\* Config.serverCredentials: identifier -> password of the account
serverCredentials == [h \in {KnownId} |-> "pw"]

\* errors.Join(a, b): the joined error holds every error of a and of b
Join(a, b) == a \o b
Nil == <<>>
\* errors.Is(err, target)
Is(err, target) == \E i \in 1..Len(err) : err[i] = target
\* what a failed read or write of the raw connection returns
IOError == <<"io">>

\* the sealed greetings a peer can send: AES-GCM under some key, with some
\* nonce, of a plaintext {version, command, identifier}; whole = the 62
\* bytes reach the server in one segment
Greetings ==
  [kind : {"sealed"}, nonce : Nonces, key : {InitPassword, OtherPassword},
   ver : {gordafaridVersion, 2}, cmd : {CmdConnect, 2},
   id : {KnownId, UnknownId}, whole : BOOLEAN]

\* the greetings of peers that hold the init-password and an account
ValidGreetings ==
  {g \in Greetings : /\ g.key = InitPassword /\ g.whole
                     /\ g.ver = gordafaridVersion /\ g.cmd = CmdConnect
                     /\ g.id \in DOMAIN serverCredentials}

\* the address types the requests of the model carry (2 is not an address type)
Atyps == {AtypIPv4, 2}

\* the first 12 bytes of an unsealed greeting {1, 1, identifier}, taken as a nonce
BytesAsNonce(b) == IF b[3][2] = "user" THEN 1 ELSE MaxNonce

\* ReadWithContext(ctx, c.Conn, greetingCipher): one Read of the raw stream
\* into the 62-byte buffer; the caller drops the count.  intact = the buffer
\* holds the whole sealed greeting
GreetingCipher(item) ==
  IF item.kind = "sealed"
  THEN [nonce |-> item.nonce, key |-> item.key, ver |-> item.ver, cmd |-> item.cmd,
        id |-> item.id, size |-> greetingCipherSize, intact |-> item.whole,
        got |-> IF item.whole THEN greetingCipherSize ELSE greetingCipherSize - 1]
  ELSE [nonce |-> BytesAsNonce(item.bytes), key |-> "", ver |-> item.bytes[1],
        cmd |-> item.bytes[2], id |-> item.bytes[3], size |-> greetingCipherSize,
        intact |-> FALSE,
        got |-> greetingCipherSize - AEAD_NonceSize - AEAD_Overhead]

\* Decrypt_AES_GCM: if len(ciphertext) < nonceSize
TooShort(ct) == ct.size < AEAD_NonceSize

\* gcm.Open inside Decrypt_AES_GCM
GcmOpenOK(ct, key) == ct.intact /\ ct.key = key

\* serverHandleGreeting: if buf[0] != gordafaridVersion
VersionSupported_Any(ver) == TRUE
VersionSupported(ver) == ver = gordafaridVersion

\* handleAuthentication: look the identifier up in the credentials
handleAuthentication(hash, credentials) ==
  IF hash \notin DOMAIN credentials THEN <<"errGordafaridAuthFailed">> ELSE Nil

\* c.config.serverCredentials[greetingHash]: the password, or the zero value
Password(credentials, hash) ==
  IF hash \in DOMAIN credentials THEN credentials[hash] ELSE ""

\* Decrypt_AES_GCM once the nonce is stored: gcm.Open fails or gives the plaintext
DecryptError(ct, key) ==
  IF ~GcmOpenOK(ct, key) THEN <<"errFailedToDecrypt">> ELSE Nil

\* Decrypt_AES_GCM when the nonce is in the cache
ErrDuplicatedNonceUsed == <<"ErrDuplicatedNonceUsed">>

\* serverHandleGreeting: the error it returns for an error of Decrypt_AES_GCM
GreetingDecryptError_Same(err) == <<"errServerFailedToDecryptInitialGreeting">>
GreetingDecryptError(err) ==
  IF Is(err, "ErrDuplicatedNonceUsed")
  THEN Join(<<"errServerDuplicatedAESGCMNonceUsedPossibleReplayAttack">>, err)
  ELSE <<"errServerFailedToDecryptInitialGreeting">>

\* serverHandleGreeting after Decrypt_AES_GCM has stored the nonce: the error
\* it returns, Nil when the greeting is accepted
GreetingError(ct, key, credentials) ==
  IF DecryptError(ct, key) # Nil THEN GreetingDecryptError(DecryptError(ct, key))
  ELSE IF ~VersionSupported(ct.ver) THEN <<"errUnsupportedVersion">>
  ELSE IF ct.cmd # CmdConnect THEN <<"errUnsupportedCmd">>
  ELSE handleAuthentication(ct.id, credentials)

\* aead.NewAEAD(algorithm, password): the key must have the size of the algorithm
NewAEADError(password) ==
  IF password = "" THEN <<"errFailedToBuildAEADCipher">> ELSE Nil

\* ReadAddress: the switch on the address type
AtypSupported(atyp) == atyp \in {AtypIPv4, AtypDomain, AtypIPv6}

\* longest domain name of a request
MaxDomain == 1
\* net.IPv4len and net.IPv6len
IPv4len == 4
IPv6len == 16
\* ReadAddress(ctx, conn, atyp) on a readable connection: the error and the
\* length of the address returned.  For a domain, buf = make([]byte,
\* domainLen) with the length byte as it came; a read into an empty buffer
\* returns at once without an error
ReadAddress(atyp, domainLen) ==
  IF atyp = AtypIPv4 THEN [err |-> Nil, atyp |-> atyp, len |-> IPv4len]
  ELSE IF atyp = AtypIPv6 THEN [err |-> Nil, atyp |-> atyp, len |-> IPv6len]
  ELSE IF atyp = AtypDomain THEN [err |-> Nil, atyp |-> atyp, len |-> domainLen]
  ELSE [err |-> <<"errUnsupportedAddressType", "sent address type">>, atyp |-> atyp, len |-> 0]

\* buildReplyResponse and reply.Bytes()
ReplyBytes(request) == <<gordafaridVersion, replySuccess>> \o request

\* a stream record of the handshake, as CipherConn.Write emits it
Frame(key, nonce, b) == [kind |-> "frame", rec |-> Packet(key, nonce, b)]
\* bytes written on the raw connection
Plain(b) == [kind |-> "plain", bytes |-> b]

\* a connection slot of the server process that holds no connection
FreeConn ==
  [pc |-> "free", entry |-> "none", ct |-> Nil, gerr |-> Nil, err |-> Nil,
   password |-> "", wrapped |-> FALSE, complete |-> FALSE, request |-> Nil,
   moved |-> FALSE, n |-> 0,
   \* history: what the greeting was when it was read, whether the request
   \* was read, whether a read or write failed, and (kept when the slot is
   \* reused) whether a greeting was turned down for its nonce
   a |-> FALSE, b |-> FALSE, c |-> FALSE, second |-> FALSE, fresh |-> FALSE,
   rejected |-> FALSE,
   reqOK |-> FALSE, iofail |-> FALSE,
   \* history: the bytes of the records the request was read from; whether a
   \* Handshake call on the completed connection returned nil at once ("nil")
   \* or ran the handshake function again ("rerun"); what GetHandshakeResult
   \* returned
   sent |-> Nil, again |-> "no", result |-> Nil]
\* buildServerConn: a gordafarid.Conn over a freshly accepted connection
NewConn == [FreeConn EXCEPT !.pc = "new"]

\* the handshake function has returned on this connection
Returned(c) == hs[c].pc \in {"returned", "closed", "open", "io"}

HandshakeInit ==
  /\ gcache = NewNonceCache
  /\ scache = [n \in HNonces |-> NoEntry]
  /\ hs = [c \in HConns |-> FreeConn]
  /\ hin = [c \in HConns |-> <<>>]
  /\ hout = [c \in HConns |-> <<>>]
  /\ gstored = NewNonceCache

\* a peer connects; the listener builds a gordafarid.Conn over the connection
Env_Connect(c) ==
  /\ hs[c].pc = "free"
  /\ c = 1 => cl.pc = "off"
  /\ hs' = [hs EXCEPT ![c] = [NewConn EXCEPT !.rejected = hs[c].rejected]]
  /\ UNCHANGED <<gcache, scache, hin, hout, gstored, cl, notHandshake>>

\* the peer sends a sealed greeting
Env_Greeting(c, g) ==
  /\ hs[c].pc = "greeting"
  /\ hin[c] = <<>>
  /\ c = 1 => cl.pc = "off"
  /\ hin' = [hin EXCEPT ![c] = <<g>>]
  /\ UNCHANGED <<gcache, scache, hs, hout, gstored, cl, notHandshake>>

\* CleanupExpiredNonces of a cache, run by its StartCleanupRoutine
Cleaned(cache) ==
  [n \in DOMAIN cache |->
     IF Exists(cache, n) /\ Expired(now, cache[n]) THEN NoEntry ELSE cache[n]]

\* the cleanup routine of aes_gcm.nonceCache runs
Greeting_Cleanup ==
  /\ gcache # Cleaned(gcache)
  /\ gcache' = Cleaned(gcache)
  /\ UNCHANGED <<scache, hs, hin, hout, gstored, cl, notHandshake>>

\* the cleanup routine of cipher_conn.nonceCache runs
Stream_Cleanup ==
  /\ scache # Cleaned(scache)
  /\ scache' = Cleaned(scache)
  /\ UNCHANGED <<gcache, hs, hin, hout, gstored, cl, notHandshake>>

\* Listener.Accept: gc.handshakeContext(ctx) on the new connection
Accept(c) ==
  /\ hs[c].pc = "new"
  /\ hs' = [hs EXCEPT ![c].entry = "Accept", ![c].pc = "greeting"]
  /\ UNCHANGED <<gcache, scache, hin, hout, gstored, cl, notHandshake>>

\* c.isHandshakeComplete.Load()
GetHandshakeComplete_Never(conn) == FALSE
GetHandshakeComplete(conn) == conn.complete

\* Conn.Handshake(): HandshakeContext, handshakeContext: if
\* c.GetHandshakeComplete() { return nil }; return c.handshakeFn(ctx)
Conn_Handshake(c) ==
  /\ hs[c].pc \in {"new", "open"}
  /\ hs' = IF GetHandshakeComplete(hs[c])
           THEN [hs EXCEPT ![c].again = "nil"]
           ELSE [hs EXCEPT ![c].pc = "greeting", ![c].entry = "Handshake",
                           ![c].again = IF hs[c].complete THEN "rerun" ELSE @]
  /\ UNCHANGED <<gcache, scache, hin, hout, gstored, cl, notHandshake>>

\* Conn.GetHandshakeResult(): if !c.GetHandshakeComplete() { c.Handshake() };
\* return c.request.AddressHeader, nil
GetHandshakeResult(c) ==
  /\ hs[c].pc \in {"new", "open"}
  /\ hs' = IF GetHandshakeComplete(hs[c])
           THEN [hs EXCEPT ![c].result = hs[c].request]
           ELSE [hs EXCEPT ![c].pc = "greeting", ![c].entry = "GetHandshakeResult"]
  /\ UNCHANGED <<gcache, scache, hin, hout, gstored, cl, notHandshake>>

\* Conn.Read(b): if !c.GetHandshakeComplete() { c.Handshake() }
Conn_Read(c) ==
  /\ hs[c].pc \in {"new", "open"}
  /\ hs' = IF GetHandshakeComplete(hs[c])
           THEN [hs EXCEPT ![c].pc = "io"]
           ELSE [hs EXCEPT ![c].pc = "greeting", ![c].entry = "Read"]
  /\ UNCHANGED <<gcache, scache, hin, hout, gstored, cl, notHandshake>>

\* Conn.Write(b): if !c.GetHandshakeComplete() { c.Handshake() }
Conn_Write(c) ==
  /\ hs[c].pc \in {"new", "open"}
  /\ hs' = IF GetHandshakeComplete(hs[c])
           THEN [hs EXCEPT ![c].pc = "io"]
           ELSE [hs EXCEPT ![c].pc = "greeting", ![c].entry = "Write"]
  /\ UNCHANGED <<gcache, scache, hin, hout, gstored, cl, notHandshake>>

\* the nonce of a greeting is held by a connection that has passed the
\* Exists test of Decrypt_AES_GCM and has not yet stored it
InDecrypt(nonce) == \E d \in HConns : hs[d].pc = "store" /\ hs[d].ct.nonce = nonce

\* serverHandleGreeting: ReadWithContext of the 62-byte greeting, then
\* Decrypt_AES_GCM up to its test nonceCache.Exists(nonce)
Greeting_Read(c) ==
  /\ hs[c].pc = "greeting"
  /\ hin[c] # <<>>
  /\ LET g == GreetingCipher(Head(hin[c]))
         h == [hs EXCEPT ![c].a = g.intact /\ g.key = InitPassword,
                         ![c].b = g.ver = 1 /\ g.cmd = 1,
                         ![c].c = g.id \in DOMAIN serverCredentials,
                         ![c].second = /\ gstored[g.nonce] # NoEntry
                                       /\ now - gstored[g.nonce] <= NonceExpiry,
                         ![c].fresh = gstored[g.nonce] = NoEntry /\ ~InDecrypt(g.nonce)]
     IN  hs' = IF TooShort(g)
               THEN [h EXCEPT ![c].pc = "sendFailed",
                              ![c].gerr = GreetingDecryptError(<<"errCiphertextIsTooShortToDecrypttion">>)]
               ELSE IF Exists(gcache, g.nonce)
               THEN [h EXCEPT ![c].pc = "sendFailed", ![c].rejected = TRUE,
                              ![c].gerr = GreetingDecryptError(ErrDuplicatedNonceUsed)]
               ELSE [h EXCEPT ![c].pc = "store", ![c].ct = g]
  /\ hin' = [hin EXCEPT ![c] = Tail(@)]
  /\ UNCHANGED <<gcache, scache, hout, gstored, cl, notHandshake>>

\* serverHandleGreeting: ReadWithContext returns an error
Greeting_ReadFail(c) ==
  /\ hs[c].pc = "greeting"
  /\ hin[c] = <<>>
  /\ hs' = [hs EXCEPT ![c].pc = "sendFailed", ![c].iofail = TRUE,
               ![c].gerr = Join(<<"errServerFailedToReadEncryptedInitialGreeting">>, IOError)]
  /\ UNCHANGED <<gcache, scache, hin, hout, gstored, cl, notHandshake>>

\* Decrypt_AES_GCM as it would be with one cache for both layers: the
\* greeting nonce goes into the cache of the stream layer as well
Decrypt_Store_Shared(c) ==
  /\ hs[c].pc = "store"
  /\ gcache' = [gcache EXCEPT ![hs[c].ct.nonce] = now]
  /\ scache' = [scache EXCEPT ![hs[c].ct.nonce] = now]
  /\ gstored' = [gstored EXCEPT ![hs[c].ct.nonce] = now]
  /\ LET e == GreetingError(hs[c].ct, InitPassword, serverCredentials)
     IN  hs' = IF e = Nil
               THEN [hs EXCEPT ![c].pc = "wrap", ![c].ct = Nil,
                               ![c].password = Password(serverCredentials, hs[c].ct.id)]
               ELSE [hs EXCEPT ![c].pc = "sendFailed", ![c].ct = Nil, ![c].gerr = e]
  /\ UNCHANGED <<hin, hout, cl, notHandshake>>

\* Decrypt_AES_GCM: nonceCache.Store(nonce), gcm.Open; then the rest of
\* serverHandleGreeting: version, command, identifier, handleAuthentication
Decrypt_Store(c) ==
  /\ hs[c].pc = "store"
  /\ gcache' = [gcache EXCEPT ![hs[c].ct.nonce] = now]
  /\ gstored' = [gstored EXCEPT ![hs[c].ct.nonce] = now]
  /\ LET e == GreetingError(hs[c].ct, InitPassword, serverCredentials)
     IN  hs' = IF e = Nil
               THEN [hs EXCEPT ![c].pc = "wrap", ![c].ct = Nil,
                               ![c].password = Password(serverCredentials, hs[c].ct.id)]
               ELSE [hs EXCEPT ![c].pc = "sendFailed", ![c].ct = Nil, ![c].gerr = e]
  /\ UNCHANGED <<scache, hin, hout, cl, notHandshake>>

\* serverHandshake: serverSendGreetingFailed writes {1, 1} on the raw
\* connection, then return errors.Join(errServerFailedToHandleInitialGreeting, err)
serverSendGreetingFailed(c) ==
  /\ hs[c].pc = "sendFailed"
  /\ hout' = [hout EXCEPT ![c] = Append(@, Plain(<<gordafaridVersion, greetingFailed>>))]
  /\ hs' = [hs EXCEPT ![c].pc = "returned", ![c].gerr = Nil,
               ![c].err = Join(<<"errServerFailedToHandleInitialGreeting">>, hs[c].gerr)]
  /\ UNCHANGED <<gcache, scache, hin, gstored, cl, notHandshake>>

\* serverHandshake: the write of {1, 1} fails
serverSendGreetingFailed_Fail(c) ==
  /\ hs[c].pc = "sendFailed"
  /\ hs' = [hs EXCEPT ![c].pc = "returned", ![c].gerr = Nil, ![c].iofail = TRUE,
               ![c].err = Join(Join(<<"errServerFailedToSendGreetingFailedResponse">>, IOError),
                               hs[c].gerr)]
  /\ UNCHANGED <<gcache, scache, hin, hout, gstored, cl, notHandshake>>

\* serverHandshake: aead.NewAEAD, c.Conn = WrapConnToCipherConn(c.Conn, aead),
\* serverSendGreetingSuccess writes {1, 0} through the CipherConn, whose Write
\* draws a nonce that is not in the cache and stores it
serverSendGreetingSuccess(c, nonce) ==
  /\ hs[c].pc = "wrap"
  /\ ~Exists(scache, nonce)
  /\ IF NewAEADError(hs[c].password) # Nil
     THEN /\ hs' = [hs EXCEPT ![c].pc = "returned",
                       ![c].err = Join(<<"errFailedToBuildAEADCipher">>, NewAEADError(hs[c].password))]
          /\ UNCHANGED <<scache, hout>>
     ELSE /\ scache' = [scache EXCEPT ![nonce] = now]
          /\ hout' = [hout EXCEPT ![c] =
               Append(@, Frame(hs[c].password, nonce, <<gordafaridVersion, greetingSuccess>>))]
          /\ hs' = [hs EXCEPT ![c].pc = "request", ![c].wrapped = TRUE]
  /\ UNCHANGED <<gcache, hin, gstored, cl, notHandshake>>

\* serverHandshake: the write of the greeting response fails
serverSendGreetingSuccess_Fail(c, nonce) ==
  /\ hs[c].pc = "wrap"
  /\ ~Exists(scache, nonce)
  /\ NewAEADError(hs[c].password) = Nil
  /\ scache' = [scache EXCEPT ![nonce] = now]
  /\ hs' = [hs EXCEPT ![c].pc = "returned", ![c].wrapped = TRUE, ![c].iofail = TRUE,
               ![c].err = Join(<<"errServerFailedToSendGreetingSuccessResponse">>, IOError)]
  /\ UNCHANGED <<gcache, hin, hout, gstored, cl, notHandshake>>

\* the peer sends a request {atyp, addr, port}, the address being the two
\* halves a1 and a2: in one record (second = 0), or in two records, the
\* first ending after a1 and the other sealed under the nonce second
Env_Request(c, key, nonce, atyp, second) ==
  /\ hs[c].pc = "request"
  /\ hin[c] = <<>>
  /\ c = 1 => cl.pc = "off"
  /\ second # nonce
  /\ hin' = [hin EXCEPT ![c] =
       IF second = 0 THEN <<Frame(key, nonce, <<atyp, "a1", "a2", "port">>)>>
       ELSE <<Frame(key, nonce, <<atyp, "a1">>), Frame(key, second, <<"a2", "port">>)>>]
  /\ UNCHANGED <<gcache, scache, hs, hout, gstored, cl, notHandshake>>

\* CipherConn.Read of the request record, then ReadAddress: the error
\* handleRequest returns, Nil when the request is read
RequestError(cache, key, item) ==
  IF item.kind # "frame" THEN IOError
  ELSE IF Exists(cache, item.rec.nonce) THEN <<"errServerDuplicatedAEADNonceUsedPossibleReplayAttack">>
  ELSE IF ~OpenOK(key, item.rec.nonce, item.rec) THEN <<"errOpen">>
  ELSE IF ~AtypSupported(item.rec.ct.pt[1]) THEN <<"errUnsupportedAddressType">>
  ELSE Nil

\* a byte of a buffer that no Read has filled
ZeroBytes == "zero"

\* handleRequest over the records the peer has sent: ReadWithContext of one
\* byte (the address type), ReadAddress and ReadPort, each one Read of the
\* CipherConn whose count is dropped.  A Read with plaintext left in
\* c.buffer returns what is left, however short; a Read with an empty
\* c.buffer takes the next record.  used = the number of records taken
RequestRead(cache, key, items) ==
  LET first == Head(items)
      pt == first.rec.ct.pt
  IN  IF RequestError(cache, key, first) # Nil
      THEN [err |-> RequestError(cache, key, first), request |-> Nil, used |-> 1]
      ELSE IF Len(pt) = 4
      THEN [err |-> Nil, request |-> pt, used |-> 1]
      ELSE LET next == items[2]
               stored == [cache EXCEPT ![first.rec.nonce] = 0]
           IN  IF Exists(stored, next.rec.nonce)
               THEN [err |-> <<"errUnableToReadPort",
                               "errServerDuplicatedAEADNonceUsedPossibleReplayAttack">>,
                     request |-> Nil, used |-> 2]
               ELSE IF ~OpenOK(key, next.rec.nonce, next.rec)
               THEN [err |-> <<"errUnableToReadPort", "errOpen">>, request |-> Nil, used |-> 2]
               ELSE [err |-> Nil, used |-> 2,
                     request |-> <<pt[1], pt[2], ZeroBytes, next.rec.ct.pt[1]>>]

\* serverHandshake: handleRequest reads the address type, the address and
\* the port through the CipherConn
handleRequest(c) ==
  /\ hs[c].pc = "request"
  /\ hin[c] # <<>>
  /\ LET item == Head(hin[c])
         r == RequestRead(scache, hs[c].password, hin[c])
         one == IF item.kind = "frame" /\ ~Exists(scache, item.rec.nonce)
                THEN [scache EXCEPT ![item.rec.nonce] = now] ELSE scache
     IN  /\ scache' = IF r.used = 1 \/ Exists(one, hin[c][2].rec.nonce) THEN one
                      ELSE [one EXCEPT ![hin[c][2].rec.nonce] = now]
         /\ hs' = IF r.err = Nil
                  THEN [hs EXCEPT ![c].pc = "reply", ![c].request = r.request,
                                  ![c].reqOK = TRUE,
                                  ![c].sent = Flatten([i \in 1..r.used |-> hin[c][i].rec.ct.pt])]
                  ELSE [hs EXCEPT ![c].pc = "returned",
                                  ![c].err = Join(<<"errServerFailedToHandleRequest">>, r.err)]
         /\ hin' = [hin EXCEPT ![c] = SubSeq(@, r.used + 1, Len(@))]
  /\ UNCHANGED <<gcache, hout, gstored, cl, notHandshake>>

\* serverHandshake: the read of the request returns an error
handleRequest_Fail(c) ==
  /\ hs[c].pc = "request"
  /\ hin[c] = <<>>
  /\ hs' = [hs EXCEPT ![c].pc = "returned", ![c].iofail = TRUE,
               ![c].err = Join(<<"errServerFailedToHandleRequest", "errUnableToReadAddressType">>,
                               IOError)]
  /\ UNCHANGED <<gcache, scache, hin, hout, gstored, cl, notHandshake>>

\* serverHandshake: serverSendReply, c.SetHandshakeComplete(), return nil
serverSendReply(c, nonce) ==
  /\ hs[c].pc = "reply"
  /\ ~Exists(scache, nonce)
  /\ scache' = [scache EXCEPT ![nonce] = now]
  /\ hout' = [hout EXCEPT ![c] =
       Append(@, Frame(hs[c].password, nonce, ReplyBytes(hs[c].request)))]
  /\ hs' = [hs EXCEPT ![c].pc = "returned", ![c].complete = TRUE, ![c].err = Nil]
  /\ UNCHANGED <<gcache, hin, gstored, cl, notHandshake>>

\* serverHandshake: the write of the reply fails
\* (mutant: the connection is marked complete all the same)
serverSendReply_Fail_Complete(c, nonce) ==
  /\ hs[c].pc = "reply"
  /\ ~Exists(scache, nonce)
  /\ scache' = [scache EXCEPT ![nonce] = now]
  /\ hs' = [hs EXCEPT ![c].pc = "returned", ![c].iofail = TRUE, ![c].complete = TRUE,
               ![c].err = Join(<<"errServerFailedToSendReplyResponse">>, IOError)]
  /\ UNCHANGED <<gcache, hin, hout, gstored, cl, notHandshake>>
serverSendReply_Fail(c, nonce) ==
  /\ hs[c].pc = "reply"
  /\ ~Exists(scache, nonce)
  /\ scache' = [scache EXCEPT ![nonce] = now]
  /\ hs' = [hs EXCEPT ![c].pc = "returned", ![c].iofail = TRUE,
               ![c].err = Join(<<"errServerFailedToSendReplyResponse">>, IOError)]
  /\ UNCHANGED <<gcache, hin, hout, gstored, cl, notHandshake>>

\* Conn.Read and Conn.Write: if err := c.Handshake(); err != nil { return 0, err }
ProceedsToIO_Always(err) == TRUE
ProceedsToIO(err) == err = Nil

\* the handshake function returns to its caller: Listener.Accept closes the
\* connection on an error and hands it out otherwise; Conn.Read and
\* Conn.Write return (0, err) on an error and go on to c.Conn otherwise;
\* Handshake returns the error and GetHandshakeResult the request's
\* address header, to a caller that gives the connection up on an error
Handshake_Return(c) ==
  /\ hs[c].pc = "returned"
  /\ hs' = IF hs[c].entry \in {"Accept", "Handshake"}
           THEN [hs EXCEPT ![c].pc = IF hs[c].err # Nil THEN "closed" ELSE "open"]
           ELSE IF hs[c].entry = "GetHandshakeResult"
           THEN IF hs[c].err # Nil THEN [hs EXCEPT ![c].pc = "closed"]
                ELSE [hs EXCEPT ![c].pc = "open", ![c].result = hs[c].request]
           ELSE IF ProceedsToIO(hs[c].err)
                THEN [hs EXCEPT ![c].pc = "io"]
                ELSE [hs EXCEPT ![c].pc = "closed", ![c].n = 0]
  /\ UNCHANGED <<gcache, scache, hin, hout, gstored, cl, notHandshake>>

\* Conn.Read and Conn.Write: return c.Conn.Read(b), return c.Conn.Write(b)
Conn_IO(c) ==
  /\ hs[c].pc = "io"
  /\ hs' = [hs EXCEPT ![c].pc = "open", ![c].moved = TRUE, ![c].n = 1]
  /\ UNCHANGED <<gcache, scache, hin, hout, gstored, cl, notHandshake>>

\* the connection is closed; the slot takes the next connection
Conn_Close(c) ==
  /\ hs[c].pc \in {"open", "closed"}
  /\ c = 1 => cl.pc = "off"
  /\ hs' = [hs EXCEPT ![c] = [FreeConn EXCEPT !.rejected = hs[c].rejected]]
  /\ hin' = [hin EXCEPT ![c] = <<>>]
  /\ hout' = [hout EXCEPT ![c] = <<>>]
  /\ UNCHANGED <<gcache, scache, gstored, cl, notHandshake>>

\* ---- the dialing side: clientHandshake ----
\* the accounts a dialing side can be configured with
Accounts == {<<"user", "pw">>, <<"nobody", "pw">>}
\* DialAccountConfig.HashSalt
HashSalt == "salt"
\* buildClientConn: the identifier is SHA-256 of the username, the password
\* and the salt
SaltedHash(username, password, salt) == <<"sha256", username, password, salt>>

\* ReadWithContext(ctx, c.Conn, buf) on the raw connection, len(buf) = 2:
\* the first two bytes of what the peer wrote; of a stream record these are
\* its big-endian length prefix
RawTwoBytes(item) ==
  IF item.kind = "plain" THEN SubSeq(item.bytes, 1, 2)
  ELSE <<item.rec.len \div 256, item.rec.len % 256>>

\* clientHandleGreetingResponse: the error for the two bytes read
GreetingResponseError(buf) ==
  IF buf[1] # gordafaridVersion THEN <<"errUnsupportedVersion">>
  ELSE IF buf[2] = greetingFailed THEN <<"errGreetingFailed">>
  ELSE Nil

\* clientHandleReplyResponse through the CipherConn: the error for the
\* record read
ReplyResponseError(cache, key, item) ==
  IF item.kind # "frame" THEN IOError
  ELSE IF Exists(cache, item.rec.nonce) THEN <<"errServerDuplicatedAEADNonceUsedPossibleReplayAttack">>
  ELSE IF ~OpenOK(key, item.rec.nonce, item.rec) THEN <<"errOpen">>
  ELSE IF item.rec.ct.pt[1] # gordafaridVersion THEN <<"errUnsupportedVersion">>
  ELSE IF item.rec.ct.pt[2] # replySuccess THEN <<"errReplyFailed">>
  ELSE IF ~AtypSupported(item.rec.ct.pt[3]) THEN <<"errUnsupportedAddressType">>
  ELSE Nil

\* no dialing side
NoClient ==
  [pc |-> "off", peer |-> "none", account |-> <<>>, wrapped |-> FALSE,
   complete |-> FALSE, err |-> Nil, rpos |-> 0, resp |-> Nil, respWrapped |-> FALSE,
   cache |-> [n \in HNonces |-> NoEntry]]

ClientInit == cl = NoClient

\* Dialer.dial: buildClientConn over a new connection, to the server of this
\* model (which accepts it on connection 1) or to some other peer
Client_Dial(peer, account) ==
  /\ cl.pc = "off"
  /\ hs[1].pc = "free"
  /\ cl' = [cl EXCEPT !.pc = "greeting", !.peer = peer, !.account = account]
  /\ hs' = IF peer = "server" THEN [hs EXCEPT ![1] = NewConn] ELSE hs
  /\ UNCHANGED <<gcache, scache, hin, hout, gstored, notHandshake>>

\* clientHandshake: clientSendGreeting writes c.greeting.Bytes() on the connection
clientSendGreeting ==
  /\ cl.pc = "greeting"
  /\ hin' = [hin EXCEPT ![1] = Append(@,
       Plain(<<gordafaridVersion, CmdConnect,
               SaltedHash(cl.account[1], cl.account[2], HashSalt)>>))]
  /\ cl' = [cl EXCEPT !.pc = "response"]
  /\ UNCHANGED <<gcache, scache, hs, hout, gstored, notHandshake>>

\* clientHandshake: clientHandleGreetingResponse reads two bytes of the
\* connection, then crypto.NewAEAD and c.Conn = WrapConnToCipherConn(c.Conn, aead)
clientHandleGreetingResponse ==
  /\ cl.pc = "response"
  /\ Len(hout[1]) > cl.rpos
  /\ LET buf == RawTwoBytes(hout[1][cl.rpos + 1])
         e == GreetingResponseError(buf)
     IN  cl' = IF e = Nil
               THEN [cl EXCEPT !.pc = "request", !.rpos = @ + 1, !.resp = buf,
                               !.respWrapped = cl.wrapped, !.wrapped = TRUE]
               ELSE [cl EXCEPT !.pc = "failed", !.rpos = @ + 1, !.resp = buf,
                               !.respWrapped = cl.wrapped,
                               !.err = Join(<<"errClientFailedToHandleInitialGreetingResponse">>, e)]
  /\ UNCHANGED <<gcache, scache, hs, hin, hout, gstored, notHandshake>>

\* clientHandshake: clientSendRequest writes the request through the CipherConn
clientSendRequest(nonce, atyp) ==
  /\ cl.pc = "request"
  /\ ~Exists(cl.cache, nonce)
  /\ hin' = [hin EXCEPT ![1] = Append(@, Frame(cl.account[2], nonce, <<atyp, "a1", "a2", "port">>))]
  /\ cl' = [cl EXCEPT !.pc = "reply", !.cache[nonce] = now]
  /\ UNCHANGED <<gcache, scache, hs, hout, gstored, notHandshake>>

\* clientHandshake: clientHandleReplyResponse, c.SetHandshakeComplete()
clientHandleReplyResponse ==
  /\ cl.pc = "reply"
  /\ Len(hout[1]) > cl.rpos
  /\ LET item == hout[1][cl.rpos + 1]
         e == ReplyResponseError(cl.cache, cl.account[2], item)
     IN  cl' = IF e = Nil
               THEN [cl EXCEPT !.pc = "done", !.rpos = @ + 1, !.complete = TRUE,
                               !.cache[item.rec.nonce] = now]
               ELSE [cl EXCEPT !.pc = "failed", !.rpos = @ + 1,
                               !.err = Join(<<"errClientFailedToHandleReplyResponse">>, e)]
  /\ UNCHANGED <<gcache, scache, hs, hin, hout, gstored, notHandshake>>

\* a peer that is not the server of this model answers the dialing side:
\* two bytes on the raw connection
Peer_Respond(ver, status) ==
  /\ cl.peer = "peer"
  /\ cl.pc = "response"
  /\ Len(hout[1]) = cl.rpos
  /\ hout' = [hout EXCEPT ![1] = Append(@, Plain(<<ver, status>>))]
  /\ UNCHANGED <<gcache, scache, hs, hin, gstored, cl, notHandshake>>

\* a peer that is not the server of this model answers the request with a
\* reply record
Peer_Reply(key, nonce, status) ==
  /\ cl.peer = "peer"
  /\ cl.pc = "reply"
  /\ Len(hout[1]) = cl.rpos
  /\ hout' = [hout EXCEPT ![1] = Append(@,
       Frame(key, nonce, <<gordafaridVersion, status, AtypIPv4, "a1", "a2", "port">>))]
  /\ UNCHANGED <<gcache, scache, hs, hin, gstored, cl, notHandshake>>

\* the server process serving the connections C, and the peers behind them,
\* which send the greetings G; N = the nonces the peers and the random
\* source draw, S = the nonces of the second record of a request (0 = the
\* request is a single record)
NextServer(C, G, N, S) ==
  \/ \E c \in C : Env_Connect(c)
  \/ \E c \in C, g \in G : Env_Greeting(c, g)
  \/ \E c \in C : Accept(c)
  \/ \E c \in C : Conn_Read(c)
  \/ \E c \in C : Conn_Write(c)
  \/ \E c \in C : Conn_Handshake(c)
  \/ \E c \in C : GetHandshakeResult(c)
  \/ \E c \in C : Greeting_Read(c)
  \/ \E c \in C : Greeting_ReadFail(c)
  \/ \E c \in C : Decrypt_Store(c)
  \/ \E c \in C : serverSendGreetingFailed(c)
  \/ \E c \in C : serverSendGreetingFailed_Fail(c)
  \/ \E c \in C, nonce \in N : serverSendGreetingSuccess(c, nonce)
  \/ \E c \in C, nonce \in N : serverSendGreetingSuccess_Fail(c, nonce)
  \/ \E c \in C, key \in {"pw", OtherPassword}, nonce \in N, atyp \in Atyps,
        second \in S :
       Env_Request(c, key, nonce, atyp, second)
  \/ \E c \in C : handleRequest(c)
  \/ \E c \in C : handleRequest_Fail(c)
  \/ \E c \in C, nonce \in N : serverSendReply(c, nonce)
  \/ \E c \in C, nonce \in N : serverSendReply_Fail(c, nonce)
  \/ \E c \in C : Handshake_Return(c)
  \/ \E c \in C : Conn_IO(c)
  \/ \E c \in C : Conn_Close(c)

\* the server process serving one connection after the other
NextHandshake == NextServer({1}, Greetings, HNonces, {0} \cup HNonces)

\* the server process, a dialing side that connects to it or to another
\* peer, and that peer
NextPair ==
  \/ NextServer({1}, Greetings, HNonces, {0} \cup HNonces)
  \/ \E peer \in {"server", "peer"}, account \in Accounts : Client_Dial(peer, account)
  \/ clientSendGreeting
  \/ clientHandleGreetingResponse
  \/ \E nonce \in HNonces, atyp \in Atyps : clientSendRequest(nonce, atyp)
  \/ clientHandleReplyResponse
  \/ \E ver \in {gordafaridVersion, 2}, status \in {greetingSuccess, greetingFailed, 2} :
       Peer_Respond(ver, status)
  \/ \E key \in {"pw", OtherPassword}, nonce \in HNonces, status \in {replySuccess, 1} :
       Peer_Reply(key, nonce, status)

\* the same over a span of time in which the cleanup routines of the two
\* nonce caches run, with peers that send well-formed greetings
NextRetention ==
  \/ NextServer({1}, ValidGreetings, RetentionNonces, {0})
  \/ Greeting_Cleanup
  \/ Stream_Cleanup
  \/ Tick

(***************************************************************************)
(* SOCKS5 user/password sub-negotiation (socks.Conn)                       *)
(***************************************************************************)
userPassAuthVersion == 1
userPassAuthSuccess == 0
userPassAuthFailed == 1

\* two runs of the sub-negotiation, each on its own connection and server
Runs == {1, 2}
Usernames == {"alice", "bob"}
Passwords == {"a", "b"}
\* serverConfig.credentials: username -> password; the sub-negotiation is
\* only selected when the map is not nil
Credentials == {[u \in {"alice"} |-> "a"], [u \in {"bob"} |-> "a"], [u \in {"alice"} |-> "b"]}

\* authenticate: the credentials are not nil
authenticate_Any(credentials, username, password) == Nil
authenticate(credentials, username, password) ==
  IF username \notin DOMAIN credentials THEN <<"errAuthIncorrectUsername">>
  ELSE IF password = credentials[username] THEN Nil
  ELSE <<"errAuthIncorrectPassword">>

\* fmt.Errorf("username: %s", username)
UsernameError(username) == <<"username: " \o username>>

\* a run that has not started: the server's credentials, what the client
\* sends, and whether writes on the connection fail
SocksRuns ==
  [pc : {"parse"}, credentials : Credentials, version : {userPassAuthVersion, 2},
   username : Usernames, password : Passwords, writeFails : BOOLEAN,
   auth : {Nil}, wire : {<<>>}, err : {Nil}]
NoRun ==
  [pc |-> "off", credentials |-> [u \in {"alice"} |-> "a"], version |-> 0,
   username |-> "", password |-> "", writeFails |-> FALSE,
   auth |-> Nil, wire |-> <<>>, err |-> Nil]

SocksIdle == sa = [r \in Runs |-> NoRun]
SocksInit == sa \in [Runs -> SocksRuns]

\* serverHandleUserPassAuthMethodNegotiation: serverParseUserPassAuthMethodHeaders
Socks_ParseHeaders(r) ==
  /\ sa[r].pc = "parse"
  /\ sa' = IF sa[r].version # userPassAuthVersion
           THEN [sa EXCEPT ![r].pc = "done",
                           ![r].err = <<"errUnsupportedUserPassAuthVersion", "sent version">>]
           ELSE [sa EXCEPT ![r].pc = "authenticate"]
  /\ UNCHANGED notSocks

\* serverHandleUserPassAuthMethodNegotiation: c.authenticate()
Socks_Authenticate(r) ==
  /\ sa[r].pc = "authenticate"
  /\ sa' = [sa EXCEPT ![r].pc = "respond",
               ![r].auth = authenticate(sa[r].credentials, sa[r].username, sa[r].password)]
  /\ UNCHANGED notSocks

\* serverHandleUserPassAuthMethodNegotiation: the two-byte response is written
Socks_Respond(r) ==
  /\ sa[r].pc = "respond"
  /\ ~sa[r].writeFails
  /\ sa' = IF sa[r].auth # Nil
           THEN [sa EXCEPT ![r].pc = "done",
                           ![r].wire = <<userPassAuthVersion, userPassAuthFailed>>,
                           ![r].err = Join(<<"errAuthenticationFailed">>, UsernameError(sa[r].username))]
           ELSE [sa EXCEPT ![r].pc = "done",
                           ![r].wire = <<userPassAuthVersion, userPassAuthSuccess>>]
  /\ UNCHANGED notSocks

\* serverHandleUserPassAuthMethodNegotiation: the write of the response fails
Socks_Respond_Fail(r) ==
  /\ sa[r].pc = "respond"
  /\ sa[r].writeFails
  /\ sa' = IF sa[r].auth # Nil
           THEN [sa EXCEPT ![r].pc = "done",
                           ![r].err = Join(Join(<<"errUnableToSendUserPassAuthFailedResponse">>, IOError),
                                           sa[r].auth)]
           ELSE [sa EXCEPT ![r].pc = "done",
                           ![r].err = Join(<<"errUnableToSendUserPassAuthSuccessResponse">>, IOError)]
  /\ UNCHANGED notSocks

NextSocks ==
  \/ \E r \in Runs : Socks_ParseHeaders(r)
  \/ \E r \in Runs : Socks_Authenticate(r)
  \/ \E r \in Runs : Socks_Respond(r)
  \/ \E r \in Runs : Socks_Respond_Fail(r)

(***************************************************************************)
(* SOCKS5 acceptor: Listener.Accept and socks.Conn.serverHandshake         *)
(***************************************************************************)
socks5Version == 5
noAuthMethod == 0
userPassAuthMethod == 2
noAcceptableMethod == 255
MaxMethods == 3

\* the method lists a client can advertise: NMETHODS = Len, any order, any
\* multiplicity (1 is GSSAPI, which the acceptor does not know)
Advertised == UNION {[1..n -> {noAuthMethod, 1, userPassAuthMethod}] : n \in 0..MaxMethods}

\* serverParseInitialGreetingHeaders: methods := make([]byte, nMethods) and one
\* ReadWithContext, whose single Read has delivered the first `got` bytes
MethodsRead(methods, got) ==
  [i \in 1..Len(methods) |-> IF i <= got THEN methods[i] ELSE 0]

\* selectPreferredSocks5AuthMethod: the loop over c.greeting.methods with its
\* break; the result is <<noAuth, userPassAuth>>
RECURSIVE ScanMethods(_, _, _)
ScanMethods(methods, noAuth, userPassAuth) ==
  IF methods = <<>> \/ (noAuth /\ userPassAuth) THEN <<noAuth, userPassAuth>>
  ELSE ScanMethods(Tail(methods),
                   noAuth \/ Head(methods) = noAuthMethod,
                   userPassAuth \/ (Head(methods) # noAuthMethod
                                    /\ Head(methods) = userPassAuthMethod))

\* selectPreferredSocks5AuthMethod; configured is credentials != nil
selectPreferredSocks5AuthMethod(configured, methods) ==
  LET found == ScanMethods(methods, FALSE, FALSE)
  IN  IF configured /\ found[2] THEN [method |-> userPassAuthMethod, err |-> Nil]
      ELSE IF ~configured /\ found[1] THEN [method |-> noAuthMethod, err |-> Nil]
      ELSE [method |-> noAcceptableMethod,
            err |-> <<"errInvalidMethod", "sent auth methods">>]

\* verifyMethods
verifyMethods(configured, bestMethod) ==
  IF configured /\ bestMethod # userPassAuthMethod
  THEN <<"errNoAcceptableMethod", "sent nmethods">>
  ELSE Nil

\* reply.Bytes() of serverSendReplyResponse: {5, 0, 0, 1, 0.0.0.0, 0}
SocksReply == <<socks5Version, 0, 0, 1, <<0, 0, 0, 0>>, <<0, 0>>>>

\* an accepted connection before its handshake: the acceptor's configuration,
\* what the client is going to send, and which write of the handshake fails
\* (1 the method selection, 2 the sub-negotiation response, 3 the reply)
AcceptorRuns ==
  {r \in [pc : {"greeting"}, configured : BOOLEAN, credentials : Credentials,
          version : {socks5Version, 4}, methods : Advertised, got : 1..MaxMethods,
          authVersion : {userPassAuthVersion}, username : Usernames,
          password : Passwords, failAt : 0..3,
          best : {-1}, wire : {<<>>}, err : {Nil}, reqRead : {FALSE},
          complete : {FALSE}, closed : {FALSE}, dial : {"none"}, atDial : {0},
          dst : {ReadAddress(0, 0)}] :
     r.got <= Len(r.methods) \/ (r.got = 1 /\ r.methods = <<>>)}
AcceptorIdle ==
  sk = [pc |-> "off", configured |-> FALSE, credentials |-> [u \in {"alice"} |-> "a"],
        version |-> 0, methods |-> <<>>, got |-> 1, authVersion |-> 0,
        username |-> "", password |-> "", failAt |-> 0, best |-> -1,
        wire |-> <<>>, err |-> Nil, reqRead |-> FALSE, complete |-> FALSE,
        closed |-> FALSE, dial |-> "none", atDial |-> 0, dst |-> ReadAddress(0, 0)]
AcceptorInit == sk \in AcceptorRuns

\* serverHandshake: serverHandleInitialGreeting up to the method selection
\* response; on method 0x02 the sub-negotiation starts on the same connection
serverHandleInitialGreeting ==
  /\ sk.pc = "greeting"
  /\ LET methods == MethodsRead(sk.methods, sk.got)
         parse == IF sk.version # socks5Version
                  THEN <<"errUnsupportedVersion", "sent version">>
                  ELSE IF Len(sk.methods) = 0
                  THEN <<"errInvalidNMethodsValue", "sent nmethods">>
                  ELSE Nil
         best == selectPreferredSocks5AuthMethod(sk.configured, methods)
         verify == verifyMethods(sk.configured, best.method)
         failed(e) == [sk EXCEPT !.pc = "done",
                                 !.err = Join(<<"errFailedToHandleInitialGreeting">>, e)]
     IN  IF parse # Nil
         THEN /\ sk' = failed(Join(<<"errFailedToParseInitialGreetingHeaders">>, parse))
              /\ UNCHANGED sa
         ELSE IF best.err # Nil
         THEN /\ sk' = [failed(best.err) EXCEPT !.best = best.method]
              /\ UNCHANGED sa
         ELSE IF verify # Nil
         THEN /\ sk' = IF sk.failAt = 1
                       THEN [failed(Join(Join(<<"errFailedToSendNoAcceptableMethodResponse">>,
                                               IOError), verify))
                               EXCEPT !.best = best.method]
                       ELSE [failed(Join(<<"errFailedToVerifyMethods">>, verify))
                               EXCEPT !.best = best.method,
                                      !.wire = Append(@, <<socks5Version, noAcceptableMethod>>)]
              /\ UNCHANGED sa
         ELSE IF sk.failAt = 1
         THEN /\ sk' = [failed(Join(<<"errFailedToSendMethodSelectionResponse">>, IOError))
                          EXCEPT !.best = best.method]
              /\ UNCHANGED sa
         ELSE /\ sk' = [sk EXCEPT !.best = best.method,
                                  !.wire = Append(@, <<socks5Version, best.method>>),
                                  !.pc = IF best.method = userPassAuthMethod
                                         THEN "auth" ELSE "request"]
              /\ sa' = IF best.method = userPassAuthMethod
                       THEN [sa EXCEPT ![1] =
                               [pc |-> "parse", credentials |-> sk.credentials,
                                version |-> sk.authVersion, username |-> sk.username,
                                password |-> sk.password, writeFails |-> sk.failAt = 2,
                                auth |-> Nil, wire |-> <<>>, err |-> Nil]]
                       ELSE sa
  /\ UNCHANGED notAcceptor

\* serverHandleInitialGreeting: serverHandleUserPassAuthMethodNegotiation has
\* returned
Socks_AuthReturn ==
  /\ sk.pc = "auth"
  /\ sa[1].pc = "done"
  /\ LET written == IF sa[1].wire = <<>> THEN sk.wire ELSE Append(sk.wire, sa[1].wire)
     IN  sk' = IF sa[1].err # Nil
               THEN [sk EXCEPT !.pc = "done", !.wire = written,
                       !.err = Join(<<"errFailedToHandleInitialGreeting">>,
                                    Join(<<"errFailedToHandleUserPassAuthNegotiation">>,
                                         sa[1].err))]
               ELSE [sk EXCEPT !.pc = "request", !.wire = written]
  /\ sa' = [sa EXCEPT ![1] = NoRun]
  /\ UNCHANGED notAcceptor

\* serverHandshake: serverHandleRequest (serverParseRequestHeaders, then
\* serverSendReplyResponse) and SetHandshakeComplete
serverHandleRequest(readable, ver, cmd, atyp, domainLen) ==
  /\ sk.pc = "request"
  /\ LET parse == IF ~readable THEN Join(<<"errUnableToReadRequest">>, IOError)
                  ELSE IF ver # socks5Version \/ cmd # 1
                  THEN <<"errUnsupportedVersionOrCommand">>
                  ELSE ReadAddress(atyp, domainLen).err
     IN  sk' = IF parse # Nil
               THEN [sk EXCEPT !.pc = "done",
                       !.err = Join(<<"errFailedToHandleRequest">>,
                                    Join(<<"errFailedToParseRequestHeaders">>, parse))]
               ELSE IF sk.failAt = 3
               THEN [sk EXCEPT !.pc = "done", !.reqRead = TRUE,
                       !.dst = ReadAddress(atyp, domainLen),
                       !.err = Join(<<"errFailedToHandleRequest">>,
                                    Join(<<"errFailedToSendReplyResponse">>,
                                         <<"errUnableToSendReplyResponse">>))]
               ELSE [sk EXCEPT !.pc = "done", !.reqRead = TRUE,
                               !.dst = ReadAddress(atyp, domainLen),
                               !.wire = Append(@, SocksReply), !.complete = TRUE]
  /\ UNCHANGED <<notAcceptor, sa>>

\* socks Listener.Accept: if err = sc.handshakeContext(...); err != nil
\* { sc.Close(); return nil, err }; return sc, nil
Socks_Accept ==
  /\ sk.pc = "done"
  /\ sk' = IF sk.err # Nil THEN [sk EXCEPT !.pc = "closed", !.closed = TRUE]
           ELSE [sk EXCEPT !.pc = "accepted"]
  /\ UNCHANGED <<notAcceptor, sa>>

\* Client.handleConnection on the accepted SOCKS5 connection, up to the
\* relay: GetHandshakeResult, then gordafaridDialer.DialContext (the TCP dial
\* and the tunnel handshake); on its error the handler returns and the
\* deferred conn.Close() runs
Client_handleConnection_NoClose(dialOK) ==
  /\ sk.pc = "accepted"
  /\ sk' = IF dialOK
           THEN [sk EXCEPT !.pc = "relay", !.dial = "ok", !.atDial = Len(sk.wire)]
           ELSE [sk EXCEPT !.pc = "relay", !.dial = "failed", !.atDial = Len(sk.wire)]
  /\ UNCHANGED <<notAcceptor, sa>>
Client_handleConnection(dialOK) ==
  /\ sk.pc = "accepted"
  /\ sk' = IF dialOK
           THEN [sk EXCEPT !.pc = "relay", !.dial = "ok", !.atDial = Len(sk.wire)]
           ELSE [sk EXCEPT !.pc = "torn", !.dial = "failed", !.atDial = Len(sk.wire),
                           !.closed = TRUE]
  /\ UNCHANGED <<notAcceptor, sa>>

\* Client.handleConnection: DataTransfering(&wg, errChan, conn, grc) writes
\* what the tunnel delivers to the SOCKS5 connection
Client_RelayWrite ==
  /\ sk.pc = "relay"
  /\ Len(sk.wire) = sk.atDial
  /\ sk' = [sk EXCEPT !.wire = Append(@, <<"data">>)]
  /\ UNCHANGED <<notAcceptor, sa>>

NextAcceptor ==
  \/ \E dialOK \in BOOLEAN : Client_handleConnection(dialOK)
  \/ Client_RelayWrite
  \/ serverHandleInitialGreeting
  \/ Socks_ParseHeaders(1)
  \/ Socks_Authenticate(1)
  \/ Socks_Respond(1)
  \/ Socks_Respond_Fail(1)
  \/ Socks_AuthReturn
  \/ \E readable \in BOOLEAN, ver \in {socks5Version, 4}, cmd \in {1, 2},
        atyp \in Atyps \cup {AtypDomain}, domainLen \in 0..MaxDomain :
       serverHandleRequest(readable, ver, cmd, atyp, domainLen)
  \/ Socks_Accept

(***************************************************************************)
(* Relay orchestrator: Server.handleConnection, Client.handleConnection    *)
(* and utils.DataTransfering                                               *)
(***************************************************************************)
MaxChunks == 1
errChanCap == 2

\* A is the accepted stream (gc on the server, the SOCKS5 conn on the
\* client), B the dialled one (tconn on the server, grc on the client)
Streams == {"A", "B"}
\* go DataTransfering(&wg, errChan, B, A) copies A to B; the other B to A
CopyTasks == {1, 2}
Src(t) == IF t = 1 THEN "A" ELSE "B"
Dst(t) == IF t = 1 THEN "B" ELSE "A"

\* the streams the deferred calls of a handler close when it returns after
\* the dial: gc.Close() and tconn.Close() on the server, conn.Close() on the
\* client
DeferredAfterDial(kind) == IF kind = "server" THEN {"A", "B"} ELSE {"A"}

RelayStart(kind) ==
  [kind |-> kind, pc |-> "start",
   peer |-> [s \in Streams |-> "open"],
   closed |-> [s \in Streams |-> FALSE],
   opened |-> FALSE,
   task |-> [t \in CopyTasks |-> [pc |-> "idle", err |-> Nil, n |-> 0]],
   wg |-> 0, errChan |-> <<>>, chanClosed |-> FALSE, logged |-> 0,
   expired |-> FALSE]
RelayIdle == rl = [RelayStart("none") EXCEPT !.pc = "off"]
RelayInit == rl \in {RelayStart(kind) : kind \in {"server", "client"}}

\* handleConnection from its entry to the start of the goroutines:
\* GetHandshakeResult, the dial, wg.Add(2), make(chan error, 2), go ...
handleConnection_Dial(resultOK, dialOK) ==
  /\ rl.pc = "start"
  /\ rl' = IF ~resultOK \/ ~dialOK
           THEN [rl EXCEPT !.pc = "returned", !.closed["A"] = TRUE]
           ELSE [rl EXCEPT !.pc = "relay", !.opened = TRUE, !.wg = 2,
                           !.task = [t \in CopyTasks |-> [pc |-> "copy", err |-> Nil, n |-> 0]]]
  /\ UNCHANGED notRelay

\* the peer of a stream closes it (end-of-stream for the reader) or the
\* stream breaks (a read or write on it fails with another error)
Env_PeerEnds(s, how) ==
  /\ rl.pc = "relay"
  /\ rl.peer[s] = "open"
  /\ rl' = [rl EXCEPT !.peer[s] = how]
  /\ UNCHANGED notRelay

\* io.Copy inside DataTransfering: a chunk arrives on the source and is
\* written to the destination; a failed write ends io.Copy with the error
DataTransfering_Data(t) ==
  /\ rl.task[t].pc = "copy"
  /\ rl.peer[Src(t)] = "open"
  /\ rl.task[t].n < MaxChunks
  /\ rl' = IF rl.peer[Dst(t)] = "err"
           THEN [rl EXCEPT !.task[t].pc = "send",
                           !.task[t].err = <<"errTransfererror", "write">>]
           ELSE [rl EXCEPT !.task[t].n = @ + 1]
  /\ UNCHANGED notRelay

\* io.Copy returns: nil at the end of the source (then the deferred
\* wg.Done()), the error of the read otherwise
DataTransfering_Return(t) ==
  /\ rl.task[t].pc = "copy"
  /\ rl.peer[Src(t)] # "open"
  /\ rl' = IF rl.peer[Src(t)] = "eof"
           THEN [rl EXCEPT !.task[t].pc = "done", !.wg = @ - 1]
           ELSE [rl EXCEPT !.task[t].pc = "send",
                           !.task[t].err = <<"errTransfererror", "read">>]
  /\ UNCHANGED notRelay

\* DataTransfering: errChan <- errors.Join(errTransfererror, err); return,
\* and the deferred wg.Done()
DataTransfering_Send(t) ==
  /\ rl.task[t].pc = "send"
  /\ ~rl.chanClosed
  /\ Len(rl.errChan) < errChanCap
  /\ rl' = [rl EXCEPT !.task[t].pc = "done", !.wg = @ - 1,
                      !.errChan = Append(@, rl.task[t].err)]
  /\ UNCHANGED notRelay

\* the closing goroutine as it would be without wg.Wait()
Relay_CloseChan_NoWait ==
  /\ rl.pc = "relay"
  /\ ~rl.chanClosed
  /\ rl' = [rl EXCEPT !.chanClosed = TRUE]
  /\ UNCHANGED notRelay

\* go func() { wg.Wait(); close(errChan) }()
Relay_CloseChan ==
  /\ rl.pc = "relay"
  /\ rl.wg = 0
  /\ ~rl.chanClosed
  /\ rl' = [rl EXCEPT !.chanClosed = TRUE]
  /\ UNCHANGED notRelay

\* for err := range errChan { if !errors.Is(err, io.EOF) { logger.Error(err) } }
handleConnection_Range ==
  /\ rl.pc = "relay"
  /\ rl.errChan # <<>>
  /\ rl' = [rl EXCEPT !.errChan = Tail(@),
                      !.logged = IF Is(Head(rl.errChan), "EOF") THEN @ ELSE @ + 1]
  /\ UNCHANGED notRelay

\* the range loop ends on the closed, drained channel; handleConnection
\* returns and its deferred calls run
handleConnection_Return ==
  /\ rl.pc = "relay"
  /\ rl.errChan = <<>>
  /\ rl.chanClosed
  /\ rl' = [rl EXCEPT !.pc = "returned",
                      !.closed = [s \in Streams |->
                                    rl.closed[s] \/ s \in DeferredAfterDial(rl.kind)]]
  /\ UNCHANGED notRelay

\* Client.Start: the context.WithTimeout(context.Background(), time.Hour) of
\* the connection expires; handleConnection passes the context to the dial
\* only, the copy tasks do not take it
Lifetime_Expire ==
  /\ rl.kind = "client"
  /\ rl.pc = "relay"
  /\ ~rl.expired
  /\ rl' = [rl EXCEPT !.expired = TRUE]
  /\ UNCHANGED notRelay

\* the steps the program takes by itself
RelaySteps ==
  \/ \E resultOK, dialOK \in BOOLEAN : handleConnection_Dial(resultOK, dialOK)
  \/ \E t \in CopyTasks : DataTransfering_Return(t)
  \/ \E t \in CopyTasks : DataTransfering_Send(t)
  \/ Relay_CloseChan
  \/ handleConnection_Range
  \/ handleConnection_Return

NextRelay ==
  \/ RelaySteps
  \/ \E s \in Streams, how \in {"eof", "err"} : Env_PeerEnds(s, how)
  \/ \E t \in CopyTasks : DataTransfering_Data(t)
  \/ Lifetime_Expire

(***************************************************************************)
(* Handshake under a deadline: Listener.Accept (Gordafarid and SOCKS5),    *)
(* Dialer.dial, utils.ReadWithContext and utils.WriteWithContext           *)
(***************************************************************************)
\* the context-aware calls of a handshake that meets no protocol fault, in
\* order: the sentinel the caller joins to a failure, and whether the cause
\* stays in the error chain (errors.Join, or returned as it is) or only in
\* the message (fmt.Errorf with %v)
HandshakeIO(role) ==
  IF role = "gordafarid"
  THEN << [op |-> "read",  sentinel |-> "errServerFailedToReadEncryptedInitialGreeting", chain |-> TRUE],
          [op |-> "write", sentinel |-> "errServerFailedToSendGreetingSuccessResponse", chain |-> TRUE],
          [op |-> "read",  sentinel |-> "errUnableToReadAddressType", chain |-> TRUE],
          [op |-> "read",  sentinel |-> "errUnableToReadIpv4", chain |-> TRUE],
          [op |-> "read",  sentinel |-> "errUnableToReadPort", chain |-> TRUE],
          [op |-> "write", sentinel |-> "errServerFailedToSendReplyResponse", chain |-> TRUE] >>
  ELSE IF role = "socks"
  THEN << [op |-> "read",  sentinel |-> "errUnableToReadVersion", chain |-> TRUE],
          [op |-> "read",  sentinel |-> "errInvalidNMethodsValue", chain |-> FALSE],
          [op |-> "write", sentinel |-> "errFailedToSendMethodSelectionResponse", chain |-> TRUE],
          [op |-> "read",  sentinel |-> "errUnableToReadRequest", chain |-> TRUE],
          [op |-> "read",  sentinel |-> "errUnableToReadAddressType", chain |-> TRUE],
          [op |-> "read",  sentinel |-> "errUnableToReadIpv4", chain |-> TRUE],
          [op |-> "read",  sentinel |-> "errUnableToReadPort", chain |-> TRUE],
          [op |-> "write", sentinel |-> "errUnableToSendReplyResponse", chain |-> FALSE] >>
  ELSE << [op |-> "write", sentinel |-> "errClientFailedToSendInitialGreeting", chain |-> TRUE],
          [op |-> "read",  sentinel |-> "errClientFailedToHandleInitialGreetingResponse", chain |-> TRUE],
          [op |-> "write", sentinel |-> "errClientFailedToSendRequest", chain |-> TRUE],
          [op |-> "read",  sentinel |-> "errClientFailedToHandleReplyResponse", chain |-> TRUE],
          [op |-> "read",  sentinel |-> "errClientFailedToHandleReplyResponse", chain |-> TRUE],
          [op |-> "read",  sentinel |-> "errUnableToReadAddressType", chain |-> TRUE],
          [op |-> "read",  sentinel |-> "errUnableToReadIpv4", chain |-> TRUE],
          [op |-> "read",  sentinel |-> "errUnableToReadPort", chain |-> TRUE] >>

\* ctx.Err() of a context.WithTimeout context
ctx_Err_Nil(done) == Nil
ctx_Err(done) == IF done THEN <<"context.DeadlineExceeded">> ELSE Nil

\* the error a handshake step returns for the failure err of its I/O call
StepError(step, err) ==
  IF step.chain THEN Join(<<step.sentinel>>, err)
  ELSE <<step.sentinel, "error: " \o err[1]>>

\* what follows the handshake's error in its caller: gc.Close() and
\* sc.Close() in the two Listener.Accept, nothing in Dialer.dial
ClosesOnError_Never(role) == FALSE
ClosesOnError(role) == role \in {"gordafarid", "socks"}

\* step 0 is the serverSendGreetingFailed of the Gordafarid server, which
\* follows a failed greeting
CtxStart(role) ==
  [role |-> role, pc |-> "call", step |-> 1, helper |-> "none", res |-> Nil,
   staleIO |-> 0, staleSend |-> 0, ctxDone |-> FALSE, cancelled |-> FALSE,
   ret |-> Nil, retBlocked |-> FALSE, gerr |-> Nil, err |-> Nil,
   complete |-> FALSE, closed |-> FALSE]
CtxIdle == cx = [CtxStart("none") EXCEPT !.pc = "off"]

\* the handshake after one of its context-aware calls has returned err, the
\* helper of the call being left in the state `helper`
AfterIO(err, helper) ==
  LET left == [cx EXCEPT !.helper = "none", !.ret = err,
                         !.retBlocked = (helper = "io"),
                         !.cancelled = @ \/ (err # Nil /\ err = ctx_Err(cx.ctxDone)),
                         !.staleIO = IF helper = "io" THEN @ + 1 ELSE @,
                         !.staleSend = IF helper = "send" THEN @ + 1 ELSE @]
      steps == HandshakeIO(cx.role)
  IN  IF cx.step = 0
      THEN [left EXCEPT !.pc = "hsreturned",
              !.err = IF err # Nil
                      THEN Join(Join(<<"errServerFailedToSendGreetingFailedResponse">>, err),
                                cx.gerr)
                      ELSE Join(<<"errServerFailedToHandleInitialGreeting">>, cx.gerr)]
      ELSE IF err # Nil
      THEN IF cx.role = "gordafarid" /\ cx.step = 1
           THEN [left EXCEPT !.pc = "call", !.step = 0,
                             !.gerr = StepError(steps[1], err)]
           ELSE [left EXCEPT !.pc = "hsreturned",
                             !.err = StepError(steps[cx.step], err)]
      ELSE IF cx.step = Len(steps)
      THEN [left EXCEPT !.pc = "hsreturned", !.complete = TRUE]
      ELSE [left EXCEPT !.pc = "call", !.step = @ + 1]

\* ReadWithContext, WriteWithContext: make(chan ...), go func() {...}()
WithContext_Call ==
  /\ cx.pc = "call"
  /\ cx' = [cx EXCEPT !.pc = "select", !.helper = "io"]
  /\ UNCHANGED notCtx

\* the helper goroutine: r.Read(buf) or w.Write(buf) returns, with or without
\* an error, and the helper comes to its send on the unbuffered channel; a
\* helper whose caller has left does the same
Helper_IOReturns(ok) ==
  /\ \/ /\ cx.helper = "io"
        /\ cx' = [cx EXCEPT !.helper = "send", !.res = IF ok THEN Nil ELSE IOError]
     \/ /\ cx.staleIO > 0
        /\ cx' = [cx EXCEPT !.staleIO = @ - 1, !.staleSend = @ + 1]
  /\ UNCHANGED notCtx

\* the deadline of context.WithTimeout passes before the handshake returned
Ctx_Timeout ==
  /\ cx.pc \in {"call", "select"}
  /\ ~cx.ctxDone
  /\ cx' = [cx EXCEPT !.ctxDone = TRUE]
  /\ UNCHANGED notCtx

\* select: case <-ctx.Done(): return 0, ctx.Err()
WithContext_Done ==
  /\ cx.pc = "select"
  /\ cx.ctxDone
  /\ cx' = AfterIO(ctx_Err(cx.ctxDone), cx.helper)
  /\ UNCHANGED notCtx

\* select: case v := <-readChan: return v.n, v.err; the helper's send is
\* taken and the helper ends
WithContext_Result ==
  /\ cx.pc = "select"
  /\ cx.helper = "send"
  /\ cx' = AfterIO(cx.res, "gone")
  /\ UNCHANGED notCtx

\* Listener.Accept and Dialer.dial after the handshake has returned
Accept_Return ==
  /\ cx.pc = "hsreturned"
  /\ cx' = [cx EXCEPT !.pc = "returned",
                      !.closed = cx.err # Nil /\ ClosesOnError(cx.role),
                      !.err = IF cx.role = "dialer" /\ cx.err # Nil
                              THEN Join(<<"errHandshakeFailed">>, cx.err) ELSE cx.err]
  /\ UNCHANGED notCtx

\* the steps the program and the timer take by themselves
CtxSteps ==
  \/ WithContext_Call
  \/ Ctx_Timeout
  \/ WithContext_Done
  \/ WithContext_Result
  \/ Accept_Return

NextCtx ==
  \/ CtxSteps
  \/ \E ok \in BOOLEAN : Helper_IOReturns(ok)

(***************************************************************************)
(* Single calls of the codecs: one CipherConn.Write of a plaintext of a    *)
(* given size, one CipherConn.Read of a record with a given length prefix  *)
(***************************************************************************)
\* largest value of the 2-byte length field
MaxUint16 == 65535
\* how far below the largest record the sizes of a single write start
WriteMargin == 30
\* the sizes of b handed to one Write: short ones, and those around the
\* largest record the length field can describe
WriteSizes == (0..MaxWrite) \cup ((MaxUint16 - WriteMargin)..(MaxUint16 + MaxWrite))
\* length prefixes a peer can send: none, shorter than a nonce, shorter than
\* nonce and tag, and whole records of up to MaxWrite bytes
ReadPrefixes == 0..(AEAD_NonceSize + AEAD_Overhead + MaxWrite)

\* the algorithm names a configuration can carry: those of supportedAEADs
\* and one that is not among them
AlgoNames == {"chacha20-poly1305", "aes-256-gcm", "aes-192-gcm", "aes-128-gcm", "rc4"}

\* supportedAEADs: the key size of each supported algorithm
supportedAEADs ==
  [a \in {"chacha20-poly1305", "aes-256-gcm", "aes-192-gcm", "aes-128-gcm"} |->
     IF a \in {"chacha20-poly1305", "aes-256-gcm"} THEN 32
     ELSE IF a = "aes-192-gcm" THEN 24 ELSE 16]

\* IsCryptoSupported(algoName, password), passwordLen = len(password)
IsCryptoSupported(algoName, passwordLen) ==
  IF algoName \notin DOMAIN supportedAEADs THEN <<"errCryptoAlgorithmUnsupported">>
  ELSE IF passwordLen # supportedAEADs[algoName] THEN <<"errAccountPasswordInvalid">>
  ELSE Nil

\* GetAlgorithmKeySize(algoName): if err := IsCryptoSupported(algoName, "");
\* err != nil { return 0, err }; return supportedAEADs[algoName].KeySize, nil
GetAlgorithmKeySize(algoName) ==
  IF IsCryptoSupported(algoName, 0) # Nil
  THEN [n |-> 0, err |-> IsCryptoSupported(algoName, 0)]
  ELSE [n |-> supportedAEADs[algoName], err |-> Nil]

\* the lengths of the blobs handed to Decrypt_AES_GCM: from nothing to a
\* nonce, a tag and one byte of plaintext
DecryptSizes == 0..(AEAD_NonceSize + AEAD_Overhead + 1)
\* calls of Decrypt_AES_GCM that follow each other in one process
MaxDecrypts == 2

CodecCall(op) ==
  [op |-> op, pc |-> "call", algo |-> "", in |-> 0, k |-> 0, avail |-> TRUE, sealed |-> TRUE,
   len |-> 0, size |-> 0, n |-> 0, err |-> "nil", looked |-> FALSE, calls |-> 1]
CodecIdle == fx = [CodecCall("none") EXCEPT !.pc = "off"]
CodecCalls ==
  {[CodecCall("Write") EXCEPT !.in = l] : l \in WriteSizes}
    \cup {[CodecCall("Read") EXCEPT !.in = p, !.k = k, !.avail = a, !.sealed = g] :
            p \in ReadPrefixes, k \in 0..MaxBuf, a \in BOOLEAN, g \in BOOLEAN}
    \cup {[CodecCall("GetAlgorithmKeySize") EXCEPT !.algo = a] : a \in AlgoNames}
    \cup {[CodecCall("Decrypt_AES_GCM") EXCEPT !.in = l, !.k = n, !.sealed = g] :
            l \in DecryptSizes, n \in Nonces, g \in BOOLEAN}

\* CipherConn.Write(b), len(b) = fx.in: a fresh nonce, ciphertext := Seal,
\* packet := nonce + ciphertext, packetLen := uint16(len(packet)), one
\* c.Conn.Write of packetLen + packet; returns len(b), or (0, err) of the write
CipherConn_Write(ok) ==
  /\ fx.op = "Write" /\ fx.pc = "call"
  /\ fx' = IF ok
           THEN [fx EXCEPT !.pc = "ret", !.n = fx.in,
                           !.len = PacketLen(AEAD_NonceSize, fx.in + AEAD_Overhead),
                           !.size = AEAD_NonceSize + fx.in + AEAD_Overhead]
           ELSE [fx EXCEPT !.pc = "ret", !.n = 0, !.err = "io"]
  /\ UNCHANGED <<notCodec>>

\* CipherConn.Read(b), len(b) = fx.k, with an empty c.buffer, of a record
\* whose length prefix is fx.in: io.ReadFull of the prefix and of that many
\* bytes (fx.avail: the peer sent them), nonce := encryptedMessage[:NonceSize]
\* (a slice expression beyond the capacity panics), aead.Open of the rest
\* (fx.sealed: the bytes are a nonce and a ciphertext sealed under the key),
\* copy into b
CipherConn_Read ==
  /\ fx.op = "Read" /\ fx.pc = "call"
  /\ fx' = IF ~fx.avail /\ fx.in > 0
             THEN [fx EXCEPT !.pc = "ret", !.n = 0, !.err = "EOF"]
           ELSE IF fx.in < AEAD_NonceSize
             THEN [fx EXCEPT !.pc = "panic"]
           ELSE IF ~fx.sealed \/ fx.in - AEAD_NonceSize < AEAD_Overhead
             THEN [fx EXCEPT !.pc = "ret", !.n = 0, !.err = "auth"]
           ELSE [fx EXCEPT !.pc = "ret",
                           !.n = Min(fx.k, fx.in - AEAD_NonceSize - AEAD_Overhead)]
  /\ UNCHANGED <<notCodec>>

\* one call of GetAlgorithmKeySize(fx.algo)
GetAlgorithmKeySize_Call ==
  /\ fx.op = "GetAlgorithmKeySize" /\ fx.pc = "call"
  /\ fx' = [fx EXCEPT !.pc = "ret", !.n = GetAlgorithmKeySize(fx.algo).n,
                      !.err = IF GetAlgorithmKeySize(fx.algo).err = Nil THEN "nil"
                              ELSE GetAlgorithmKeySize(fx.algo).err[1]]
  /\ UNCHANGED <<notCodec>>

\* Decrypt_AES_GCM(ciphertext, key), len(ciphertext) = fx.in, its first
\* bytes being the nonce fx.k: the length test, the split, nonceCache.Exists,
\* nonceCache.Store, gcm.Open (fx.sealed: the rest is a ciphertext sealed
\* under the key and the nonce; Open needs at least the tag)
Decrypt_AES_GCM ==
  /\ fx.op = "Decrypt_AES_GCM" /\ fx.pc = "call"
  /\ IF fx.in < AEAD_NonceSize
     THEN /\ fx' = [fx EXCEPT !.pc = "ret", !.n = 0,
                              !.err = "errCiphertextIsTooShortToDecrypttion"]
          /\ UNCHANGED <<gcache, gstored>>
     ELSE IF Exists(gcache, fx.k)
     THEN /\ fx' = [fx EXCEPT !.pc = "ret", !.n = 0, !.looked = TRUE,
                              !.err = "ErrDuplicatedNonceUsed"]
          /\ UNCHANGED <<gcache, gstored>>
     ELSE /\ gcache' = [gcache EXCEPT ![fx.k] = now]
          /\ gstored' = [gstored EXCEPT ![fx.k] = now]
          /\ fx' = IF fx.sealed /\ fx.in - AEAD_NonceSize >= AEAD_Overhead
                   THEN [fx EXCEPT !.pc = "ret", !.looked = TRUE,
                                   !.n = fx.in - AEAD_NonceSize - AEAD_Overhead]
                   ELSE [fx EXCEPT !.pc = "ret", !.looked = TRUE, !.n = 0,
                                   !.err = "errFailedToDecrypt"]
  /\ UNCHANGED <<ncVars, stVars, scache, hs, hin, hout, cl, saVars, sk, rl, cx, sw, ls, hc>>

\* the process calls Decrypt_AES_GCM again, on another blob
Decrypt_AES_GCM_Again(l, n, g) ==
  /\ fx.op = "Decrypt_AES_GCM" /\ fx.pc = "ret"
  /\ fx.calls < MaxDecrypts
  /\ fx' = [CodecCall("Decrypt_AES_GCM") EXCEPT !.in = l, !.k = n, !.sealed = g,
                                               !.calls = fx.calls + 1]
  /\ UNCHANGED <<notCodec>>

NextCodec ==
  \/ \E ok \in BOOLEAN : CipherConn_Write(ok)
  \/ CipherConn_Read
  \/ GetAlgorithmKeySize_Call
  \/ Decrypt_AES_GCM
  \/ \E l \in DecryptSizes, n \in Nonces, g \in BOOLEAN : Decrypt_AES_GCM_Again(l, n, g)

(***************************************************************************)
(* The cleanup routines: init() of cipher_conn and of aes_gcm each start   *)
(* nonceCache.StartCleanupRoutine(context.Background(), cleanupInterval)   *)
(***************************************************************************)
\* number of times a ticker fires
MaxTicks == 3
\* the two process-wide caches
Caches == {"cipher_conn", "aes_gcm"}

\* <-ctx.Done() is ready: the Done channel of context.Background() is nil
\* and never is; a cancellable context is done once cancelled
ctx_Done(ctx, cancelled) == ctx # "Background" /\ cancelled

\* the goroutine of StartCleanupRoutine as init() starts it
RoutineStart ==
  [pc |-> "select", ctx |-> "Background", tick |-> FALSE, ticks |-> 0,
   sweeps |-> 0, late |-> 0]
RoutineIdle ==
  sw = [shutdown |-> FALSE, r |-> [c \in Caches |-> [RoutineStart EXCEPT !.pc = "off"]]]
RoutineInit ==
  sw = [shutdown |-> FALSE, r |-> [c \in Caches |-> RoutineStart]]

\* the ticker fires: a value is put in ticker.C, a channel of capacity 1
Ticker_Fire(c) ==
  /\ sw.r[c].pc \in {"select", "sweeping"}
  /\ sw.r[c].ticks < MaxTicks
  /\ sw' = [sw EXCEPT !.r[c].tick = TRUE, !.r[c].ticks = @ + 1]
  /\ UNCHANGED <<notRoutine>>

\* the process is shut down or the package torn down: every context that
\* can be cancelled is; no code of the repository takes part
Env_Shutdown ==
  /\ ~sw.shutdown
  /\ \E c \in Caches : sw.r[c].pc # "off"
  /\ sw' = [sw EXCEPT !.shutdown = TRUE]
  /\ UNCHANGED <<notRoutine>>

\* StartCleanupRoutine: select { case <-ticker.C: ...; case <-ctx.Done(): return }
\* with a ready case; among several ready cases the runtime picks one
StartCleanupRoutine_Select(c, pick) ==
  /\ sw.r[c].pc = "select"
  /\ \/ /\ pick = "ticker" /\ sw.r[c].tick
        /\ sw' = [sw EXCEPT !.r[c].pc = "sweeping", !.r[c].tick = FALSE,
                            !.r[c].late = IF sw.shutdown THEN @ + 1 ELSE @]
     \/ /\ pick = "done" /\ ctx_Done(sw.r[c].ctx, sw.shutdown)
        /\ sw' = [sw EXCEPT !.r[c].pc = "returned"]
  /\ UNCHANGED <<notRoutine>>

\* StartCleanupRoutine: nc.CleanupExpiredNonces() returns, back to the select
StartCleanupRoutine_Swept(c) ==
  /\ sw.r[c].pc = "sweeping"
  /\ sw' = [sw EXCEPT !.r[c].pc = "select", !.r[c].sweeps = @ + 1]
  /\ UNCHANGED <<notRoutine>>

RoutineSteps ==
  \E c \in Caches :
    \/ \E pick \in {"ticker", "done"} : StartCleanupRoutine_Select(c, pick)
    \/ StartCleanupRoutine_Swept(c)

NextRoutine ==
  \/ \E c \in Caches : Ticker_Fire(c)
  \/ Env_Shutdown
  \/ RoutineSteps

(***************************************************************************)
(* The accept loop of the server: Server.Start and Listener.Accept         *)
(***************************************************************************)
\* connections that arrive at the listening socket
MaxConns == 66
\* connections waiting in the socket's backlog at one time
MaxBacklog == 1
\* handshakes that fail or time out
MaxAcceptErrs == 1
\* make(chan *gordafarid.Conn, 64) and make(chan error, 64)
acceptedConnChanCap == 64
acceptErrChanCap == 64

ListenerStart ==
  [pc |-> "accept", cur |-> 0, stalled |-> FALSE, next |-> 0, backlog |-> 0,
   acceptedConnChan |-> <<>>, errChan |-> 0, errs |-> 0,
   started |-> {}, failed |-> {}, dropped |-> {}, lostErrs |-> 0]
ListenerIdle == ls = [ListenerStart EXCEPT !.pc = "off"]
ListenerInit == ls = ListenerStart

\* a peer connects: the connection waits in the backlog of the socket
Env_Incoming ==
  /\ ls.pc # "off"
  /\ ls.backlog < MaxBacklog
  /\ ls.next + ls.backlog < MaxConns
  /\ ls' = [ls EXCEPT !.backlog = @ + 1]
  /\ UNCHANGED <<notListener>>

\* Listener.Accept up to the handshake: l.Listener.Accept returns the next
\* connection of the backlog, buildServerConn wraps it and handshakeContext
\* starts under the handshake deadline, in the goroutine that called Accept.
\* stall: the peer sends nothing, the handshake can only end at its deadline
Listener_Accept(stall) ==
  /\ ls.pc = "accept"
  /\ ls.backlog > 0
  /\ stall => ls.errs < MaxAcceptErrs
  /\ ls' = [ls EXCEPT !.pc = "handshake", !.cur = ls.next + 1, !.next = @ + 1,
                      !.backlog = @ - 1, !.stalled = stall]
  /\ UNCHANGED <<notListener>>

\* the handshake succeeded, Accept returns the Conn and the accepting
\* goroutine offers it to acceptedConnChan without blocking: when the channel
\* is full the connection is closed and the loop goes on
Start_Accepted ==
  /\ ls.pc = "handshake"
  /\ ~ls.stalled
  /\ ls' = IF Len(ls.acceptedConnChan) < acceptedConnChanCap
             THEN [ls EXCEPT !.pc = "accept", !.cur = 0,
                             !.acceptedConnChan = Append(@, ls.cur)]
             ELSE [ls EXCEPT !.pc = "accept", !.cur = 0,
                             !.dropped = @ \cup {ls.cur}]
  /\ UNCHANGED <<notListener>>

\* the handshake failed or its deadline passed: Accept closes the Conn and
\* returns the error, which the accepting goroutine offers to errChan
\* without blocking
Start_AcceptError ==
  /\ ls.pc = "handshake"
  /\ ls.errs < MaxAcceptErrs
  /\ ls' = [ls EXCEPT !.pc = "accept", !.cur = 0, !.stalled = FALSE,
                      !.errs = @ + 1, !.failed = @ \cup {ls.cur},
                      !.errChan = IF @ < acceptErrChanCap THEN @ + 1 ELSE @,
                      !.lostErrs = IF ls.errChan < acceptErrChanCap THEN @ ELSE @ + 1]
  /\ UNCHANGED <<notListener>>

\* the main loop receives a Conn and starts go s.handleConnection(conn)
Start_Dispatch ==
  /\ ls.pc # "off"
  /\ ls.acceptedConnChan # <<>>
  /\ ls' = [ls EXCEPT !.acceptedConnChan = Tail(@),
                      !.started = @ \cup {Head(ls.acceptedConnChan)}]
  /\ UNCHANGED <<notListener>>

\* the main loop receives an error and logs it
Start_LogError ==
  /\ ls.pc # "off"
  /\ ls.errChan > 0
  /\ ls' = [ls EXCEPT !.errChan = @ - 1]
  /\ UNCHANGED <<notListener>>

NextListener ==
  \/ Env_Incoming
  \/ \E stall \in BOOLEAN : Listener_Accept(stall)
  \/ Start_Accepted
  \/ Start_AcceptError
  \/ Start_Dispatch
  \/ Start_LogError

(***************************************************************************)
(* Goroutines that call Read and Write on one Conn                         *)
(***************************************************************************)
CallersIdle == hc = <<>>

\* the two goroutines: one calls Conn.Read, the other Conn.Write
Callers == {"Read", "Write"}
\* messages the peer sends in all
MaxPeerSends == 3
\* what a peer can send: a sealed greeting on the raw stream, a request in a
\* record of the stream layer
PeerItems == {"greeting", "request"}

\* a server-side Conn as buildServerConn returns it, on which no handshake
\* has run; c.Conn with layers wrappings of the stream layer around it
CallersStart ==
  [complete |-> FALSE, layers |-> 0, wraps |-> 0, runs |-> 0,
   hin |-> <<>>, hout |-> <<>>, sends |-> 0,
   g |-> [t \in Callers |-> [pc |-> "idle", inner |-> 0, err |-> FALSE]]]
CallersInit == hc = CallersStart

\* the peer sends its next message
Peer_Send(item) ==
  /\ hc # <<>>
  /\ hc.sends < MaxPeerSends
  /\ hc' = [hc EXCEPT !.sends = @ + 1, !.hin = Append(@, item)]
  /\ UNCHANGED <<notCallers>>

\* Conn.Read / Conn.Write: if !c.GetHandshakeComplete()
Task_Call(t) ==
  /\ hc # <<>>
  /\ hc.g[t].pc = "idle"
  /\ hc' = [hc EXCEPT !.g[t].pc = IF hc.complete THEN "io" ELSE "Handshake"]
  /\ UNCHANGED <<notCallers>>

\* c.Handshake(): handshakeContext and then serverHandshake load the flag
\* again and return nil when it is set; else the handshake function runs
Task_handshakeContext(t) ==
  /\ hc # <<>>
  /\ hc.g[t].pc = "Handshake"
  /\ hc' = IF hc.complete
           THEN [hc EXCEPT !.g[t].pc = "io"]
           ELSE [hc EXCEPT !.g[t].pc = "greeting", !.runs = @ + 1]
  /\ UNCHANGED <<notCallers>>

\* serverHandleGreeting: one read of c.Conn; the sealed greeting is accepted
\* when it is what arrives and c.Conn is still the raw stream
Task_serverHandleGreeting(t) ==
  /\ hc # <<>>
  /\ hc.g[t].pc = "greeting"
  /\ hc.hin # <<>>
  /\ hc' = [hc EXCEPT !.hin = Tail(@),
                      !.g[t].pc = IF Head(hc.hin) = "greeting" /\ hc.layers = 0
                                  THEN "NewAEAD" ELSE "sendFailed"]
  /\ UNCHANGED <<notCallers>>

\* serverSendGreetingFailed, then serverHandshake returns the error and
\* Read / Write return it
Task_serverSendGreetingFailed(t) ==
  /\ hc # <<>>
  /\ hc.g[t].pc = "sendFailed"
  /\ hc' = [hc EXCEPT !.hout = Append(@, [msg |-> "greetingFailed", by |-> t,
                                          layers |-> hc.layers]),
                      !.g[t].pc = "returned", !.g[t].err = TRUE]
  /\ UNCHANGED <<notCallers>>

\* aead.NewAEAD and the load of c.Conn, the argument of WrapConnToCipherConn
Task_NewAEAD(t) ==
  /\ hc # <<>>
  /\ hc.g[t].pc = "NewAEAD"
  /\ hc' = [hc EXCEPT !.g[t].pc = "Wrap", !.g[t].inner = hc.layers]
  /\ UNCHANGED <<notCallers>>

\* c.Conn = cipher_conn.WrapConnToCipherConn(c.Conn, aead): the store of the
\* stream layer around the connection that was loaded
Task_WrapConnToCipherConn(t) ==
  /\ hc # <<>>
  /\ hc.g[t].pc = "Wrap"
  /\ hc' = [hc EXCEPT !.g[t].pc = "sendSuccess", !.layers = hc.g[t].inner + 1,
                      !.wraps = @ + 1]
  /\ UNCHANGED <<notCallers>>

\* serverSendGreetingSuccess through c.Conn as it is now
Task_serverSendGreetingSuccess(t) ==
  /\ hc # <<>>
  /\ hc.g[t].pc = "sendSuccess"
  /\ hc' = [hc EXCEPT !.hout = Append(@, [msg |-> "greetingSuccess", by |-> t,
                                          layers |-> hc.layers]),
                      !.g[t].pc = "request"]
  /\ UNCHANGED <<notCallers>>

\* handleRequest: the request is read when it is what arrives and c.Conn is
\* one stream layer over the raw stream; else serverHandshake returns the error
Task_handleRequest(t) ==
  /\ hc # <<>>
  /\ hc.g[t].pc = "request"
  /\ hc.hin # <<>>
  /\ hc' = IF Head(hc.hin) = "request" /\ hc.layers = 1
           THEN [hc EXCEPT !.hin = Tail(@), !.g[t].pc = "sendReply"]
           ELSE [hc EXCEPT !.hin = Tail(@), !.g[t].pc = "returned", !.g[t].err = TRUE]
  /\ UNCHANGED <<notCallers>>

\* serverSendReply, c.SetHandshakeComplete(), return nil
Task_serverSendReply(t) ==
  /\ hc # <<>>
  /\ hc.g[t].pc = "sendReply"
  /\ hc' = [hc EXCEPT !.hout = Append(@, [msg |-> "reply", by |-> t,
                                          layers |-> hc.layers]),
                      !.complete = TRUE, !.g[t].pc = "io"]
  /\ UNCHANGED <<notCallers>>

\* return c.Conn.Read(b) / c.Conn.Write(b)
Task_IO(t) ==
  /\ hc # <<>>
  /\ hc.g[t].pc = "io"
  /\ hc' = [hc EXCEPT !.g[t].pc = "returned"]
  /\ UNCHANGED <<notCallers>>

NextCallers ==
  \/ \E item \in PeerItems : Peer_Send(item)
  \/ \E t \in Callers :
       \/ Task_Call(t)
       \/ Task_handshakeContext(t)
       \/ Task_serverHandleGreeting(t)
       \/ Task_serverSendGreetingFailed(t)
       \/ Task_NewAEAD(t)
       \/ Task_WrapConnToCipherConn(t)
       \/ Task_serverSendGreetingSuccess(t)
       \/ Task_handleRequest(t)
       \/ Task_serverSendReply(t)
       \/ Task_IO(t)

(***************************************************************************)
(* Specifications                                                          *)
(***************************************************************************)
InitNonce == NonceInit /\ StreamInit /\ HandshakeInit /\ ClientInit /\ SocksIdle /\ AcceptorIdle /\ RelayIdle /\ CtxIdle /\ CodecIdle /\ RoutineIdle /\ ListenerIdle /\ CallersIdle
SpecNonce == InitNonce /\ [][NextNonce]_vars

InitStream == NonceInit /\ StreamInit /\ HandshakeInit /\ ClientInit /\ SocksIdle /\ AcceptorIdle /\ RelayIdle /\ CtxIdle /\ CodecIdle /\ RoutineIdle /\ ListenerIdle /\ CallersIdle
SpecStream == InitStream /\ [][NextStream]_vars

InitReplay == NonceInit /\ StreamInit /\ HandshakeInit /\ ClientInit /\ SocksIdle /\ AcceptorIdle /\ RelayIdle /\ CtxIdle /\ CodecIdle /\ RoutineIdle /\ ListenerIdle /\ CallersIdle
SpecReplay == InitReplay /\ [][NextReplay]_vars

InitForge == InitReplay
SpecForge == InitForge /\ [][NextForge]_vars

InitHandshake == NonceInit /\ StreamInit /\ HandshakeInit /\ ClientInit /\ SocksIdle /\ AcceptorIdle /\ RelayIdle /\ CtxIdle /\ CodecIdle /\ RoutineIdle /\ ListenerIdle /\ CallersIdle
SpecHandshake == InitHandshake /\ [][NextHandshake]_vars

InitPair == NonceInit /\ StreamInit /\ HandshakeInit /\ ClientInit /\ SocksIdle /\ AcceptorIdle /\ RelayIdle /\ CtxIdle /\ CodecIdle /\ RoutineIdle /\ ListenerIdle /\ CallersIdle
SpecPair == InitPair /\ [][NextPair]_vars

InitRetention == NonceInit /\ StreamInit /\ HandshakeInit /\ ClientInit /\ SocksIdle /\ AcceptorIdle /\ RelayIdle /\ CtxIdle /\ CodecIdle /\ RoutineIdle /\ ListenerIdle /\ CallersIdle
SpecRetention == InitRetention /\ [][NextRetention]_vars

InitSocks == NonceInit /\ StreamInit /\ HandshakeInit /\ ClientInit /\ SocksInit /\ AcceptorIdle /\ RelayIdle /\ CtxIdle /\ CodecIdle /\ RoutineIdle /\ ListenerIdle /\ CallersIdle
SpecSocks == InitSocks /\ [][NextSocks]_vars

InitAcceptor ==
  /\ NonceInit /\ StreamInit /\ HandshakeInit /\ ClientInit /\ SocksIdle
  /\ AcceptorInit /\ RelayIdle /\ CtxIdle /\ CodecIdle /\ RoutineIdle /\ ListenerIdle /\ CallersIdle
SpecAcceptor == InitAcceptor /\ [][NextAcceptor]_vars

\* the relay with the scheduler's fairness: a goroutine that can take a step
\* takes it; the peers owe nothing
InitRelay ==
  /\ NonceInit /\ StreamInit /\ HandshakeInit /\ ClientInit /\ SocksIdle
  /\ AcceptorIdle /\ RelayInit /\ CtxIdle /\ CodecIdle /\ RoutineIdle /\ ListenerIdle /\ CallersIdle
SpecRelay == InitRelay /\ [][NextRelay]_vars /\ WF_vars(RelaySteps)

\* a handshake under its deadline: the goroutines and the timer take their
\* steps, the peer owes nothing
InitCtx ==
  /\ NonceInit /\ StreamInit /\ HandshakeInit /\ ClientInit /\ SocksIdle
  /\ AcceptorIdle /\ RelayIdle
  /\ cx \in {CtxStart(role) : role \in {"gordafarid", "socks", "dialer"}}
  /\ CodecIdle /\ RoutineIdle /\ ListenerIdle /\ CallersIdle
SpecCtx == InitCtx /\ [][NextCtx]_vars /\ WF_vars(CtxSteps)

\* single calls of the codecs, over every input of the bounded sets
InitCodec ==
  /\ NonceInit /\ StreamInit /\ HandshakeInit /\ ClientInit /\ SocksIdle
  /\ AcceptorIdle /\ RelayIdle /\ CtxIdle
  /\ fx \in CodecCalls /\ RoutineIdle /\ ListenerIdle /\ CallersIdle
SpecCodec == InitCodec /\ [][NextCodec]_vars

\* the cleanup routines of both caches
InitRoutine ==
  /\ NonceInit /\ StreamInit /\ HandshakeInit /\ ClientInit /\ SocksIdle
  /\ AcceptorIdle /\ RelayIdle /\ CtxIdle /\ CodecIdle /\ RoutineInit /\ ListenerIdle /\ CallersIdle
SpecRoutine == InitRoutine /\ [][NextRoutine]_vars

\* the accept loop of the server and the connections that reach it
InitListener ==
  /\ NonceInit /\ StreamInit /\ HandshakeInit /\ ClientInit /\ SocksIdle
  /\ AcceptorIdle /\ RelayIdle /\ CtxIdle /\ CodecIdle /\ RoutineIdle
  /\ ListenerInit /\ CallersIdle
SpecListener == InitListener /\ [][NextListener]_vars

\* two goroutines that call Read and Write on a Conn whose handshake has
\* not run, and its peer
InitCallers ==
  /\ NonceInit /\ StreamInit /\ HandshakeInit /\ ClientInit /\ SocksIdle
  /\ AcceptorIdle /\ RelayIdle /\ CtxIdle /\ CodecIdle /\ RoutineIdle
  /\ ListenerIdle /\ CallersInit
SpecCallers == InitCallers /\ [][NextCallers]_vars

(***************************************************************************)
(* Claims                                                                  *)
(***************************************************************************)
\* C4: try-insert is atomic: of two Store calls on the same nonce that
\* overlap in time, exactly one is told fresh (never both).
C4_TryInsertAtomic ==
  \A t \in Tasks, u \in Tasks :
    (/\ t # u
     /\ tasks[t].pc = "done" /\ tasks[u].pc = "done"
     /\ tasks[t].nonce = tasks[u].nonce
     /\ u \in tasks[t].overlap)
    => ~(tasks[t].res = "fresh" /\ tasks[u].res = "fresh")

\* C5: a Store that begins after a Store of the same nonce returned fresh,
\* while that entry's age does not exceed the retention time, returns duplicate.
C5_NoDoubleAccept ==
  \A t \in Tasks :
    (tasks[t].pc = "done" /\ tasks[t].must) => tasks[t].res = "duplicate"

\* C2: a framed read of a record whose nonce was already seen by a read of the
\* same process returns the replay error and delivers no plaintext, also when
\* the replay races with the original.
C2_ReplayRejected ==
  \A c \in RConns :
    (rd[c].replay /\ rd[c].pc \in {"idle", "failed"})
      => (rd[c].err = "replay" /\ rd[c].n = 0)

\* C8: the bytes returned by the reads of connection 1 are, in order, a prefix
\* of the concatenation of the plaintexts written.
C8_OrderedDelivery == IsPrefix(rd[1].delivered, Written)

\* C8 witness: two records written and everything delivered, the last read
\* draining the rest of a record that an earlier read had only partly taken
C8_Witness ==
  /\ Len(sent) >= 2
  /\ Len(Written) >= 3
  /\ rd[1].delivered = Written
  /\ rd[1].pc = "idle"
  /\ rd[1].n < Len(sent[Len(sent)].ct.pt)

\* the handshake faults of C9: the greeting does not decrypt, has a wrong
\* version, an unsupported command or an unknown identifier
GreetingFault(c) ==
  \E e \in {"errServerFailedToDecryptInitialGreeting", "errUnsupportedVersion",
             "errUnsupportedCmd", "errGordafaridAuthFailed"} : Is(hs[c].err, e)

\* C1 as stated: a returned server handshake has marked the connection
\* handshake-complete if and only if (a) the greeting decrypts under the
\* init-password, (b) its version is 1 and its command is 1, (c) its
\* identifier is a key of the credentials
C1_SucceedsIff ==
  \A c \in HConns :
    Returned(c) => (hs[c].complete <=> (hs[c].a /\ hs[c].b /\ hs[c].c))

\* C1 amended: the handshake completes only if (a), (b) and (c) hold; the
\* greeting is accepted (the stream is wrapped) exactly when they hold and the
\* nonce of the greeting is not in the nonce cache; and an accepted handshake
\* completes exactly when the request is read and no read or write fails
C1_SucceedsOnlyIf ==
  \A c \in HConns :
    Returned(c) =>
      /\ hs[c].complete => (hs[c].a /\ hs[c].b /\ hs[c].c)
      /\ hs[c].wrapped <=> (hs[c].a /\ hs[c].b /\ hs[c].c /\ ~hs[c].second)
      /\ hs[c].complete <=> (hs[c].wrapped /\ hs[c].reqOK /\ ~hs[c].iofail)

\* a handshake with a good greeting and a good request has completed
C1_Witness ==
  /\ Returned(1) /\ hs[1].complete
  /\ hs[1].a /\ hs[1].b /\ hs[1].c /\ hs[1].reqOK

\* C3: a dialing side and the server with the same configuration and an
\* account of the server's credentials complete the handshake with each
\* other: unless a read or write fails, neither side returns an error, and the
\* greeting response the dialing side reads is read through the wrapped
\* stream and is the version 1 with the status 0
C3_PairCompletes ==
  (cl.peer = "server" /\ Hash(cl.account[1], cl.account[2]) \in DOMAIN serverCredentials
     /\ ~hs[1].iofail) =>
    /\ cl.err = Nil
    /\ hs[1].gerr = Nil /\ hs[1].err = Nil
    /\ cl.resp # Nil => (cl.respWrapped /\ cl.resp = <<gordafaridVersion, greetingSuccess>>)

\* C6: a greeting whose nonce the server has stored within the retention
\* window is turned down with the replay error and not with the decrypt
\* error, and a well-formed greeting with a nonce the server has not seen is
\* accepted, whatever was turned down before
C6_ReplayRejected ==
  \A c \in HConns :
    Returned(c) =>
      /\ hs[c].second =>
           /\ ~hs[c].complete /\ ~hs[c].wrapped
           /\ Is(hs[c].err, "errServerDuplicatedAESGCMNonceUsedPossibleReplayAttack")
           /\ ~Is(hs[c].err, "errServerFailedToDecryptInitialGreeting")
      /\ (hs[c].fresh /\ hs[c].a /\ hs[c].b /\ hs[c].c) =>
           /\ hs[c].wrapped
           /\ (hs[c].reqOK /\ ~hs[c].iofail) => hs[c].complete

\* a replayed greeting has been turned down, and a later session with a
\* fresh nonce has completed
C6_Witness ==
  /\ hs[1].rejected
  /\ Returned(1) /\ hs[1].fresh /\ hs[1].complete

\* C7: Conn.Read and Conn.Write move application bytes only on a connection
\* whose handshake is complete, and a call whose handshake fails returns the
\* error with zero bytes
C7_HandshakeBeforeIO ==
  \A c \in HConns :
    /\ hs[c].pc = "io" => hs[c].complete
    /\ hs[c].moved => hs[c].complete
    /\ (hs[c].pc = "closed" /\ hs[c].entry \in {"Read", "Write"}) =>
         (hs[c].err # Nil /\ hs[c].n = 0 /\ ~hs[c].moved)

\* a Read that ran the handshake has moved bytes
C7_Witness ==
  hs[1].entry = "Read" /\ hs[1].complete /\ hs[1].moved /\ hs[1].n > 0

\* C9: after a fault of the greeting the server has written nothing on the
\* connection
C9_NoBytesAfterFault ==
  \A c \in HConns :
    (Returned(c) /\ GreetingFault(c)) => hout[c] = <<>>

\* C10 (SOCKS5 side): two runs with the same bytes from the client and the
\* same fate of the response write, one failing for an unknown user and the
\* other for a wrong password, put the same bytes on the wire and return the
\* same error
C10_SameFailure ==
  \A r1, r2 \in Runs :
    ( /\ sa[r1].pc = "done" /\ sa[r2].pc = "done"
      /\ sa[r1].version = sa[r2].version
      /\ sa[r1].username = sa[r2].username
      /\ sa[r1].password = sa[r2].password
      /\ sa[r1].writeFails = sa[r2].writeFails
      /\ sa[r1].username \notin DOMAIN sa[r1].credentials
      /\ sa[r2].username \in DOMAIN sa[r2].credentials
      /\ sa[r2].credentials[sa[r2].username] # sa[r2].password )
    => (sa[r1].wire = sa[r2].wire /\ sa[r1].err = sa[r2].err)

\* the username/password pair the client supplies is in the credentials map
PairInMap == sk.username \in DOMAIN sk.credentials
             /\ sk.credentials[sk.username] = sk.password

\* C11: a client that advertises only method 0x00, once Listener.Accept has
\* returned and no write failed: with credentials configured the acceptor
\* has written {5, 0xFF} and closed the connection, without credentials the
\* first thing it has written is {5, 0x00}
C11_NoAuthOnly ==
  (sk.pc \in {"closed", "accepted"} /\ sk.version = socks5Version
     /\ sk.methods = <<noAuthMethod>> /\ sk.failAt = 0) =>
    /\ sk.configured =>
         (sk.wire = <<<<socks5Version, noAcceptableMethod>>>> /\ sk.closed)
    /\ ~sk.configured => (sk.wire # <<>> /\ sk.wire[1] = <<socks5Version, noAuthMethod>>)

\* C12: the method the acceptor selects for a greeting of version 5 with at
\* least one method is 0x02 when credentials are configured and 0x02 is
\* among the advertised methods, else 0x00 when no credentials are
\* configured and 0x00 is among them, else 0xFF with a failed handshake
C12_MethodSelection ==
  (sk.pc # "greeting" /\ sk.version = socks5Version /\ sk.methods # <<>>) =>
    LET adv == {sk.methods[i] : i \in 1..Len(sk.methods)}
    IN  /\ sk.best = IF sk.configured /\ userPassAuthMethod \in adv
                     THEN userPassAuthMethod
                     ELSE IF ~sk.configured /\ noAuthMethod \in adv
                     THEN noAuthMethod
                     ELSE noAcceptableMethod
        /\ sk.best = noAcceptableMethod => (sk.err # Nil /\ ~sk.complete)

C14_BothClosed ==
  rl.pc = "returned" =>
    /\ rl.closed["A"]
    /\ rl.opened => rl.closed["B"]
    /\ rl.opened => \A t \in CopyTasks : rl.task[t].pc = "done"

\* C15: a copy task that has failed with an error other than end-of-stream
\* leads to the return of the handler
C15_FailureCompletes ==
  (\E t \in CopyTasks : rl.task[t].err # Nil) ~> (rl.pc = "returned")

\* C16: once one stream of a relayed pair is at end-of-stream, the relay
\* eventually closes the other stream
C16_SymmetricClose ==
  /\ (rl.pc = "relay" /\ rl.peer["A"] = "eof") ~> rl.closed["B"]
  /\ (rl.pc = "relay" /\ rl.peer["B"] = "eof") ~> rl.closed["A"]

\* C17: once the lifetime bound of the connection has expired, both copy
\* tasks end and the handler returns with the accepted stream closed
C17_LifetimeTearsDown ==
  rl.expired ~> (/\ \A t \in CopyTasks : rl.task[t].pc = "done"
                 /\ rl.pc = "returned" /\ rl.closed["A"])

C19_DialCloses ==
  (cx.role = "dialer" /\ cx.pc = "returned" /\ cx.err # Nil) => cx.closed

\* C20: a context-aware call that returns while its underlying Read or Write
\* is still blocked returns the context's error, and a call whose context is
\* done does not stay in its select
C20_CancelReturns ==
  /\ [](cx.retBlocked => (cx.ctxDone /\ cx.ret = <<"context.DeadlineExceeded">>))
  /\ (cx.pc = "select" /\ cx.ctxDone) ~> (cx.pc # "select")

\* a read has returned the context's error while r.Read was still blocked
C20_Witness ==
  /\ cx.retBlocked /\ cx.ret = <<"context.DeadlineExceeded">>
  /\ cx.staleIO > 0 /\ cx.step > 0
  /\ HandshakeIO(cx.role)[cx.step].op = "read"

\* C21: everything the acceptor writes in answer to a request is the reply
\* {5, 0, 0, 1, 0.0.0.0, 0}, written before the tunnel is dialled; after a
\* failed dial or tunnel handshake the connection is closed and nothing has
\* been written to it since the dial began
C21_ReplyBeforeDial ==
  /\ sk.reqRead =>
       \A i \in 1..Len(sk.wire) :
         (sk.wire[i] # <<"data">> /\ sk.wire[i][1] = socks5Version /\ Len(sk.wire[i]) > 2)
           => (sk.wire[i] = SocksReply /\ (sk.dial # "none" => i <= sk.atDial))
  /\ sk.dial # "none" => (sk.complete /\ sk.wire[sk.atDial] = SocksReply)
  /\ sk.dial = "failed" => (sk.closed /\ Len(sk.wire) = sk.atDial)

\* the reply was written, the dial failed and the connection is closed
C21_Witness ==
  /\ sk.dial = "failed" /\ sk.closed
  /\ sk.wire[Len(sk.wire)] = SocksReply

\* C22: every record a framed write emits carries a length field equal to
\* len(nonce) + len(ciphertext + tag), and nonce, ciphertext and tag together
\* are at most 65,535 bytes
C22_LengthField ==
  (fx.op = "Write" /\ fx.pc = "ret" /\ fx.err = "nil")
    => (fx.len = fx.size /\ fx.size <= MaxUint16)

\* C23: a record whose length prefix is 0 is rejected: the framed read
\* returns an error to its caller and delivers no plaintext
C23_ZeroPrefixRejected ==
  (fx.op = "Read" /\ fx.in = 0 /\ fx.pc # "call")
    => (fx.pc = "ret" /\ fx.err # "nil" /\ fx.n = 0)

\* C24: a domain-type address whose length byte is 0 is rejected by the
\* address reader: no SOCKS5 handshake completes with an empty domain as its
\* destination
C24_EmptyDomainRejected ==
  (sk.reqRead /\ sk.dst.atyp = AtypDomain /\ sk.dst.len = 0)
    => (sk.dst.err # Nil /\ ~sk.complete)

\* C25: once the process is shut down (the cancellation signal of the spec)
\* the cleanup routine of each of the two caches starts no further sweep
C25_NoSweepAfterShutdown ==
  \A c \in Caches : sw.r[c].late = 0

\* C27: key-size(algo) returns 32 for chacha20-poly1305 and aes-256-gcm, 24
\* for aes-192-gcm and 16 for aes-128-gcm, and fails only for an unknown
\* algorithm
C27_KeySize ==
  (fx.op = "GetAlgorithmKeySize" /\ fx.pc = "ret")
    => /\ fx.algo \in DOMAIN supportedAEADs
            => (fx.err = "nil" /\ fx.n = supportedAEADs[fx.algo])
       /\ fx.algo \notin DOMAIN supportedAEADs => fx.err # "nil"

\* C26: a Handshake call on a connection whose handshake is complete never
\* runs the handshake again: it returns nil, reads and writes nothing and
\* leaves the connection and the nonce caches as they were
C26_Idempotent ==
  [][\A c \in HConns :
       hs[c].complete =>
         /\ hs'[c].again # "rerun"
         /\ (hs[c].again = "no" /\ hs'[c].again = "nil") =>
              /\ hs'[c] = [hs[c] EXCEPT !.again = "nil"]
              /\ hs'[c].pc = "open"
              /\ <<hin, hout, gcache, scache>>' = <<hin, hout, gcache, scache>>]_vars

\* a Handshake call on a completed connection has returned
C26_Witness ==
  \E c \in HConns : hs[c].complete /\ hs[c].again = "nil" /\ hs[c].pc = "open"

\* C28: the server attempts to open the greeting only after its read has
\* returned all 62 bytes of it
C28_ReadsWholeGreeting ==
  \A c \in HConns :
    hs[c].pc = "store" => hs[c].ct.got = greetingCipherSize

\* C29: after a successful handshake GetHandshakeResult returns the address
\* type, address and port the client sent in its request, and the reply
\* {1, 0, atyp, addr, port} echoes that destination
C29_ResultIsRequest ==
  \A c \in HConns :
    /\ hs[c].complete =>
         /\ hs[c].request = hs[c].sent
         /\ hout[c][Len(hout[c])].rec.ct.pt = <<gordafaridVersion, replySuccess>> \o hs[c].sent
    /\ hs[c].result # Nil => hs[c].result = hs[c].sent

\* the server marks the handshake complete only with the stream wrapped, the
\* greeting response written, the request read and the reply written
C30_CompleteAfterReply ==
  \A c \in HConns :
    hs[c].complete =>
      /\ hs[c].wrapped /\ hs[c].reqOK
      /\ Len(hout[c]) >= 2
      /\ hout[c][1].kind = "frame"
      /\ hout[c][1].rec.ct.pt = <<gordafaridVersion, greetingSuccess>>
      /\ hout[c][2].kind = "frame"
      /\ hout[c][2].rec.ct.pt = ReplyBytes(hs[c].request)

\* C30: marking the handshake complete is the last step of the server's
\* handshake, and the flag of a connection, once true, is never false again
C30_CompleteLast ==
  /\ []C30_CompleteAfterReply
  /\ [][\A c \in HConns :
         (hs[c].complete /\ hs'[c].pc # "free") => hs'[c].complete]_vars

\* a handshake has completed and the connection has been used since
C30_Witness ==
  \E c \in HConns : hs[c].complete /\ hs[c].moved /\ hs[c].pc = "open"

\* a record on connection d failed authentication with this nonce
Burnt(d, nonce) == rd[d].err = "auth" /\ rd[d].rec.nonce = nonce

C32_OnlySuccessProceeds ==
  /\ cl.pc \in {"request", "reply", "done"}
       => cl.resp = <<gordafaridVersion, greetingSuccess>>
  /\ (cl.pc = "failed" /\ cl.resp # Nil /\ cl.rpos = 1)
       => cl.resp # <<gordafaridVersion, greetingSuccess>>

\* the handshake of connection c has succeeded: Accept has returned its Conn
HandshakeSucceeded(c) ==
  /\ c \in 1..ls.next
  /\ c \notin ls.failed
  /\ ~(ls.pc = "handshake" /\ ls.cur = c)

\* C33: every connection whose server-side handshake succeeded is handed to
\* the orchestrator: it is waiting in the channel or its handler has been
\* started; none is dropped or closed unhandled
C33_EveryAcceptedConnHandled ==
  \A c \in 1..MaxConns :
    HandshakeSucceeded(c)
      => \/ c \in ls.started
         \/ \E i \in DOMAIN ls.acceptedConnChan : ls.acceptedConnChan[i] = c

\* C38: while a connection stalls in its handshake, the listener can still
\* accept a connection that is waiting
C38_StallDoesNotBlockAccept ==
  (ls.pc = "handshake" /\ ls.stalled /\ ls.backlog > 0)
    => ENABLED (\E stall \in BOOLEAN : Listener_Accept(stall))

\* C34: the nonce cache of the stream layer and the nonce cache of the
\* sealed greeting are separate: a step that changes one leaves the other as
\* it was, and a greeting is rejected as a duplicate only when its nonce is
\* in the greeting cache, whatever the stream cache holds
C34_SeparateCaches ==
  [][/\ gcache' # gcache => scache' = scache
     /\ scache' # scache => gcache' = gcache
     /\ \A c \in HConns :
          (/\ hs[c].pc = "greeting" /\ hin[c] # <<>>
           /\ hs'[c].pc = "sendFailed"
           /\ hs'[c].gerr = GreetingDecryptError(ErrDuplicatedNonceUsed))
            => Exists(gcache, GreetingCipher(Head(hin[c])).nonce)]_vars

\* the same nonce value has been inserted through both layers, the second
\* insert while the first was in the other cache
C34_Witness ==
  \E n \in Nonces \cap HNonces : Exists(gcache, n) /\ Exists(scache, n)

\* C35: Decrypt_AES_GCM of a blob of 12 bytes or fewer returns the
\* "ciphertext too short" error, and the nonce cache has been neither
\* consulted nor changed by the call
C35_ShortBlobRejectedFirst ==
  (fx.op = "Decrypt_AES_GCM" /\ fx.pc = "ret" /\ fx.calls = 1 /\ fx.in <= AEAD_NonceSize)
    => /\ fx.err = "errCiphertextIsTooShortToDecrypttion"
       /\ ~fx.looked
       /\ gcache = NewNonceCache

\* number of times msg has been written to the stream
Sent(msg) == Cardinality({i \in DOMAIN hc.hout : hc.hout[i].msg = msg})

C37_NoHelperLeftBlocked == cx.staleSend = 0

\* the copy tasks that have reported an error
Reported == {t \in CopyTasks : rl.task[t].pc = "done" /\ rl.task[t].err # Nil}
AllDone == rl.pc = "relay" /\ \A t \in CopyTasks : rl.task[t].pc = "done"

\* C39: in the relay a copy task that has an error to report finds room in
\* the error channel and the channel open, so it completes; each task sends
\* at most one error; the channel is closed once, only after both tasks are
\* done, so no send meets the closed channel; and once both tasks are done
\* the receive loop of the handler ends
C39_ErrorReportNeverBlocks ==
  /\ [](/\ \A t \in CopyTasks :
              rl.task[t].pc = "send" => (Len(rl.errChan) < errChanCap /\ ~rl.chanClosed)
        /\ Len(rl.errChan) + rl.logged = Cardinality(Reported)
        /\ rl.chanClosed => (rl.wg = 0 /\ \A t \in CopyTasks : rl.task[t].pc = "done"))
  /\ [][/\ \A t \in CopyTasks : rl.task[t].pc = "done" => rl'.task[t] = rl.task[t]
        /\ rl.chanClosed => rl'.chanClosed]_vars
  /\ \A t \in CopyTasks : (rl.task[t].pc = "send") ~> (rl.task[t].pc = "done")
  /\ AllDone ~> (rl.pc = "returned")

\* both tasks have reported an error before the handler received one: the
\* channel holds two errors, both tasks are done
C39_Witness ==
  /\ Len(rl.errChan) = errChanCap
  /\ Reported = CopyTasks
  /\ ~rl.chanClosed

====
